---- MODULE Spec2Model ----
(***************************************************************************)
(* KPI result lifecycle of kpimanagerchc: capture (POST /dashboard/save),  *)
(* approve (POST /dashboard/visto) and send-to-review (POST                *)
(* /dashboard/review, /dashboard/unlock) on one kpi_resultados row, gated  *)
(* by the position hierarchy (puestos.responde_a_id) and the session user. *)
(*                                                                         *)
(* Text values (valor, comentario, revision_motivo, thresholds, criteria)  *)
(* are sequences of one-character strings, so that trim, slice and         *)
(* parseFloat are computed character by character.                         *)
(***************************************************************************)
EXTENDS Integers, Sequences, FiniteSets, TLC

(***************************************************************************)
(* Bounds of the model.                                                    *)
(***************************************************************************)
\* length of the chain of puestos 1 <- 2 <- ... <- Depth of the hierarchy
Depth == 3
\* capture requests that have passed their checks and not yet written
MaxInflight == 1

(***************************************************************************)
(* SQL NULL / JS null.  Id columns use 0 (AUTO_INCREMENT ids start at 1),  *)
(* text columns use a one-element sequence that is no character, enum and  *)
(* timestamp columns use the string "NULL".                                *)
(***************************************************************************)
NULL == 0
NullStr == <<"NULL">>

\* puestos 1..Depth form the chain; puesto Depth + 1 is a second branch under 1
NumPuestos == Depth + 1
\* one employee on every puesto, a second one on puesto Depth, one on no puesto
NumEmpleados == NumPuestos + 2
Puestos == 1..NumPuestos
Empleados == 1..NumEmpleados
\* an empleado_id that matches no row of empleados (also parseInt -> NaN)
UnknownEmpleado == NumEmpleados + 1

Min(a, b) == IF a <= b THEN a ELSE b

(***************************************************************************)
(* String.prototype.trim, slice(0, n), replace(ch, by) on char sequences.  *)
(***************************************************************************)
IsSpace(c) == c = " "

RECURSIVE TrimStart(_)
TrimStart(s) ==
  IF s = <<>> THEN <<>>
  ELSE IF IsSpace(Head(s)) THEN TrimStart(Tail(s)) ELSE s

RECURSIVE TrimEnd(_)
TrimEnd(s) ==
  IF s = <<>> THEN <<>>
  ELSE IF IsSpace(s[Len(s)]) THEN TrimEnd(SubSeq(s, 1, Len(s) - 1)) ELSE s

\* variant: leading white space only
TrimLeading(s) == TrimStart(s)

Trim(s) == TrimEnd(TrimStart(s))

Slice0(s, n) == SubSeq(s, 1, Min(n, Len(s)))

\* s.replace(ch, by): only the first occurrence (string pattern, not regex)
RECURSIVE ReplaceFirst(_, _, _)
ReplaceFirst(s, ch, by) ==
  IF s = <<>> THEN <<>>
  ELSE IF Head(s) = ch THEN by \o Tail(s)
  ELSE <<Head(s)>> \o ReplaceFirst(Tail(s), ch, by)

(***************************************************************************)
(* parseFloat on a trimmed string: optional sign, digits, optional         *)
(* fraction; stops at the first character that cannot continue the number. *)
(* The result is the exact decimal m / 10^e, or NaN.  Exponent notation    *)
(* and the literal "Infinity" are outside the input alphabet.              *)
(***************************************************************************)
DigitVal(c) ==
  CASE c = "0" -> 0 [] c = "1" -> 1 [] c = "2" -> 2 [] c = "3" -> 3
    [] c = "4" -> 4 [] c = "5" -> 5 [] c = "6" -> 6 [] c = "7" -> 7
    [] c = "8" -> 8 [] c = "9" -> 9 [] OTHER -> -1

IsDigit(c) == DigitVal(c) >= 0

NaN == [ok |-> FALSE, m |-> 0, e |-> 0]

\* digits read from position i on: <<value, count, next position>>
RECURSIVE ReadDigits(_, _, _, _)
ReadDigits(s, i, acc, n) ==
  IF i <= Len(s) /\ IsDigit(s[i])
  THEN ReadDigits(s, i + 1, acc * 10 + DigitVal(s[i]), n + 1)
  ELSE <<acc, n, i>>

parseFloat(s) ==
  LET neg  == s # <<>> /\ s[1] = "-"
      i0   == IF s # <<>> /\ (s[1] = "-" \/ s[1] = "+") THEN 2 ELSE 1
      ip   == ReadDigits(s, i0, 0, 0)
      dot  == ip[3] <= Len(s) /\ s[ip[3]] = "."
      fp   == IF dot THEN ReadDigits(s, ip[3] + 1, ip[1], 0) ELSE <<ip[1], 0, ip[3]>>
      mag  == fp[1]
  IN  IF ip[2] + fp[2] = 0 THEN NaN
      ELSE [ok |-> TRUE, m |-> IF neg THEN 0 - mag ELSE mag, e |-> fp[2]]

\* variant: a value that is no number counts as 0
toNumberOrZero(v) ==
  IF v = NullStr THEN [ok |-> TRUE, m |-> 0, e |-> 0]
  ELSE LET s == ReplaceFirst(Trim(ReplaceFirst(v, "%", <<>>)), ",", <<".">>)
           n == parseFloat(s)
       IN  IF s = <<>> \/ ~n.ok THEN [ok |-> TRUE, m |-> 0, e |-> 0] ELSE n

toNumberOrNull(v) ==
  IF v = NullStr THEN NaN
  ELSE LET s == ReplaceFirst(Trim(ReplaceFirst(v, "%", <<>>)), ",", <<".">>)
       IN  IF s = <<>> THEN NaN ELSE parseFloat(s)

RECURSIVE Pow10(_)
Pow10(k) == IF k = 0 THEN 1 ELSE 10 * Pow10(k - 1)

\* variant: a > b
NumGt(a, b) == a.m * Pow10(b.e) > b.m * Pow10(a.e)

\* a >= b and a <= b on exact decimals
NumGeq(a, b) == a.m * Pow10(b.e) >= b.m * Pow10(a.e)
NumLeq(a, b) == a.m * Pow10(b.e) <= b.m * Pow10(a.e)

(***************************************************************************)
(* services/kpiScoring.js                                                  *)
(***************************************************************************)
\* String.prototype.toUpperCase on the enum spellings that occur
ToUpperCase(s) ==
  CASE s = "criterion" -> "CRITERION"
    [] s = "number" -> "NUMBER"
    [] s = "percent" -> "PERCENT"
    [] s = "higher_better" -> "HIGHER_BETTER"
    [] s = "lower_better" -> "LOWER_BETTER"
    [] OTHER -> s

\* (x || '') for a nullable text column
OrEmpty(x) == IF x = NullStr THEN <<>> ELSE x

NoKpi ==
  [id |-> NULL, score_type |-> "NULL", direction |-> "NULL",
   threshold_yellow |-> NullStr, threshold_green |-> NullStr,
   criterion_red |-> NullStr, criterion_yellow |-> NullStr,
   criterion_green |-> NullStr]

ScoreResult(c, s, r) == [color |-> c, score |-> s, reason |-> r]

scoreKpi(kpi, rawValue) ==
  IF kpi = NoKpi THEN ScoreResult("NULL", NULL, "KPI invalido")
  ELSE
  LET scoreType == ToUpperCase(IF kpi.score_type = "NULL" THEN "" ELSE kpi.score_type)
      direction == ToUpperCase(IF kpi.direction = "NULL" THEN "HIGHER_BETTER"
                               ELSE kpi.direction)
  IN
  IF scoreType = "CRITERION" THEN
    LET v == IF rawValue = NullStr THEN <<>> ELSE Trim(rawValue)
        r == Trim(OrEmpty(kpi.criterion_red))
        y == Trim(OrEmpty(kpi.criterion_yellow))
        g == Trim(OrEmpty(kpi.criterion_green))
    IN  IF r = <<>> /\ y = <<>> /\ g = <<>>
        THEN ScoreResult("NULL", NULL, "Sin criterios definidos")
        ELSE IF g # <<>> /\ v = g THEN ScoreResult("verde", 100, "NULL")
        ELSE IF y # <<>> /\ v = y THEN ScoreResult("amarillo", 70, "NULL")
        ELSE IF r # <<>> /\ v = r THEN ScoreResult("rojo", 40, "NULL")
        ELSE ScoreResult("NULL", NULL, "Valor no coincide con criterio")
  ELSE
    LET n  == toNumberOrNull(rawValue)
        ty == toNumberOrNull(kpi.threshold_yellow)
        tg == toNumberOrNull(kpi.threshold_green)
    IN  IF ~n.ok THEN ScoreResult("NULL", NULL, "Valor no numerico")
        ELSE IF ~ty.ok \/ ~tg.ok THEN ScoreResult("NULL", NULL, "Sin umbrales definidos")
        ELSE IF direction = "HIGHER_BETTER" THEN
          IF NumGeq(n, tg) THEN ScoreResult("verde", 100, "NULL")
          ELSE IF NumGeq(n, ty) THEN ScoreResult("amarillo", 70, "NULL")
          ELSE ScoreResult("rojo", 40, "NULL")
        ELSE
          IF NumLeq(n, tg) THEN ScoreResult("verde", 100, "NULL")
          ELSE IF NumLeq(n, ty) THEN ScoreResult("amarillo", 70, "NULL")
          ELSE ScoreResult("rojo", 40, "NULL")

(***************************************************************************)
(* State.                                                                  *)
(***************************************************************************)
VARIABLES
  puestos,         \* table puestos: id -> [responde_a_id, role]
  empleados,       \* table empleados: id -> [puesto_id]
  kpis,            \* table kpis: sequence of rows (one KPI)
  keyEmp,          \* empleado_id of the (empleado, kpi, anio, mes) key under study
  kpi_resultados,  \* rows of kpi_resultados with that key: <<>> or <<row>>
  pending,         \* captures between their lock read and their upsert
  resp,            \* the last response of a /dashboard handler: [op, actor, status]
  session,         \* req.session.user of each employee, NoSession when logged out
  edits,           \* number of edits of puestos and empleados made so far
  call,            \* a call of a function of the code: [fn, args, ret]
  puesto_kpis,     \* rows of puesto_kpis of the puesto under study: [kpi_id, peso]
  saving           \* POST /puestos/:id handlers that have not responded yet

vars == <<puestos, empleados, kpis, keyEmp, kpi_resultados, pending, resp,
          session, edits, call, puesto_kpis, saving>>

\* the state that no /dashboard handler writes
otherVars == <<session, edits, call, puesto_kpis, saving>>

\* the state that neither they nor the session and organization handlers write
restVars == <<call, puesto_kpis, saving>>

\* no function call under study, no KPI assignment
NoCall == [fn |-> "none", args |-> <<>>, ret |-> <<>>]

InitRest ==
  /\ call = NoCall
  /\ puesto_kpis = <<>>
  /\ saving = <<>>

Roles == {"admin", "manager", "user"}

\* id of the one KPI of table kpis, and an id that matches no row
KpiId == 1
MissingKpiId == 2

Includes(seq, x) == \E i \in 1..Len(seq) : seq[i] = x

\* variant: only admin is elevated
IsAdmin(role) == role = "admin"

IsElevated(role) == role = "admin" \/ role = "manager"

(***************************************************************************)
(* routes/auth.js POST /login: the session user is a snapshot of the       *)
(* employee row joined with its puesto, role defaulting to 'user'.         *)
(***************************************************************************)
SessionUser(e) ==
  LET pid == empleados[e].puesto_id
  IN  [id |-> e,
       puesto_id |-> pid,
       role |-> IF pid = NULL THEN "user" ELSE puestos[pid].role]

\* req.session.user of a browser that has not logged in
NoSession == [id |-> NULL, puesto_id |-> NULL, role |-> "none"]

\* SELECT id, responde_a_id FROM puestos
SelectPuestos ==
  [i \in 1..NumPuestos |-> [id |-> i, responde_a_id |-> puestos[i].responde_a_id]]

\* SELECT puesto_id FROM empleados WHERE id = ?
SelectEmpleado(id) ==
  IF id \in DOMAIN empleados THEN <<empleados[id]>> ELSE <<>>

\* SELECT e.puesto_id, p.responde_a_id FROM empleados e LEFT JOIN puestos p ...
SelectEmpleadoPuesto(id) ==
  IF id \in DOMAIN empleados
  THEN LET pid == empleados[id].puesto_id
       IN  <<[puesto_id |-> pid,
              responde_a_id |-> IF pid = NULL THEN NULL
                                ELSE puestos[pid].responde_a_id]>>
  ELSE <<>>

\* SELECT ... FROM kpis WHERE id = ?
SelectKpi(id) == SelectSeq(kpis, LAMBDA k : k.id = id)

(***************************************************************************)
(* Hierarchy (routes/dashboard.js).                                        *)
(***************************************************************************)
\* variant: only the puestos that respond to puestoId itself
directSubordinatePuestoIds(puestoId, puestoMap) ==
  LET direct == SelectSeq(puestoMap, LAMBDA p : p.responde_a_id = puestoId)
  IN  [i \in 1..Len(direct) |-> direct[i].id]

RECURSIVE buildSubordinatePuestoIds(_, _)
buildSubordinatePuestoIds(puestoId, puestoMap) ==
  LET RECURSIVE Loop(_)
      Loop(i) ==
        IF i > Len(puestoMap) THEN <<>>
        ELSE LET p == puestoMap[i]
             IN  (IF p.responde_a_id = puestoId
                  THEN <<p.id>> \o buildSubordinatePuestoIds(p.id, puestoMap)
                  ELSE <<>>) \o Loop(i + 1)
  IN  Loop(1)

\* variant: the requester's own puesto counts among its subordinates
canAccessOwnPuestoTree(user, targetEmployeeId) ==
  IF IsElevated(user.role) THEN TRUE
  ELSE IF targetEmployeeId = user.id THEN TRUE
  ELSE LET subordinatePuestos ==
             <<user.puesto_id>> \o buildSubordinatePuestoIds(user.puesto_id, SelectPuestos)
           tRows == SelectEmpleado(targetEmployeeId)
           targetPuestoId == IF tRows # <<>> THEN tRows[1].puesto_id ELSE NULL
       IN  targetPuestoId # NULL /\ Includes(subordinatePuestos, targetPuestoId)

canAccessEmployeeTree(user, targetEmployeeId) ==
  IF IsElevated(user.role) THEN TRUE
  ELSE IF targetEmployeeId = user.id THEN TRUE
  ELSE LET subordinatePuestos == buildSubordinatePuestoIds(user.puesto_id, SelectPuestos)
           tRows == SelectEmpleado(targetEmployeeId)
           targetPuestoId == IF tRows # <<>> THEN tRows[1].puesto_id ELSE NULL
       IN  targetPuestoId # NULL /\ Includes(subordinatePuestos, targetPuestoId)

\* variant: a boss at any level counts as the direct boss
isBossByPuesto(user, targetEmployeeId) ==
  IF targetEmployeeId = NULL THEN FALSE
  ELSE canAccessEmployeeTree(user, targetEmployeeId)

isDirectBossByPuesto(user, targetEmployeeId) ==
  IF targetEmployeeId = NULL THEN FALSE
  ELSE IF IsElevated(user.role) THEN TRUE
  ELSE LET empRows == SelectEmpleadoPuesto(targetEmployeeId)
       IN  IF empRows = <<>> THEN FALSE
           ELSE empRows[1].responde_a_id # NULL
                /\ empRows[1].responde_a_id = user.puesto_id

\* variant: an INNER JOIN, so an employee without puesto yields no row
\* and the missing row counts as having a boss
employeeHasRootPuesto(employeeId) ==
  LET rows == SelectSeq(SelectEmpleadoPuesto(employeeId), LAMBDA r : r.puesto_id # NULL)
  IN  IF rows = <<>> THEN FALSE ELSE rows[1].responde_a_id = NULL

employeeHasNoDirectBoss(employeeId) ==
  LET rows == SelectEmpleadoPuesto(employeeId)
  IN  IF rows = <<>> THEN TRUE ELSE rows[1].responde_a_id = NULL

(***************************************************************************)
(* Table kpi_resultados: column defaults and the three upserts.            *)
(***************************************************************************)
NewRow ==
  [valor |-> NullStr, color |-> "NULL", comentario |-> NullStr,
   visto_bueno |-> 0, visto_por |-> NULL, visto_fecha |-> "NULL",
   revision_por |-> NULL, revision_fecha |-> "NULL", revision_motivo |-> NullStr]

\* the row an INSERT ... ON DUPLICATE KEY UPDATE starts from
RowOrNew(rows) == IF rows = <<>> THEN NewRow ELSE rows[1]

\* variant: the capture of a value withdraws the pending review
UpsertValorReopening(rows, valor, resultadoColor, comentario) ==
  <<[RowOrNew(rows) EXCEPT !.valor = valor, !.color = resultadoColor,
                           !.comentario = comentario, !.revision_por = NULL,
                           !.revision_fecha = "NULL", !.revision_motivo = NullStr]>>

\* INSERT (..., valor, color, comentario) ON DUPLICATE KEY UPDATE the three
UpsertValor(rows, valor, resultadoColor, comentario) ==
  <<[RowOrNew(rows) EXCEPT !.valor = valor, !.color = resultadoColor,
                           !.comentario = comentario]>>

\* variant: the comment-only upsert also writes the absent valor
UpsertComentarioAndValor(rows, comentario) ==
  <<[RowOrNew(rows) EXCEPT !.valor = NullStr, !.comentario = comentario]>>

\* INSERT (..., comentario) ON DUPLICATE KEY UPDATE comentario
UpsertComentario(rows, comentario) ==
  <<[RowOrNew(rows) EXCEPT !.comentario = comentario]>>

\* variant: the approve keeps the pending review
UpsertVistoKeepRevision(rows, userId) ==
  <<[RowOrNew(rows) EXCEPT !.visto_bueno = 1, !.visto_por = userId,
                           !.visto_fecha = "NOW"]>>

UpsertVisto(rows, userId) ==
  <<[RowOrNew(rows) EXCEPT !.visto_bueno = 1, !.visto_por = userId,
                           !.visto_fecha = "NOW", !.revision_por = NULL,
                           !.revision_fecha = "NULL", !.revision_motivo = NullStr]>>

\* variant: sending to review keeps the approver
UpsertRevisionKeepApprover(rows, userId, motivo) ==
  <<[RowOrNew(rows) EXCEPT !.visto_bueno = 0,
                           !.revision_por = userId,
                           !.revision_fecha = "NOW", !.revision_motivo = motivo]>>

UpsertRevision(rows, userId, motivo) ==
  <<[RowOrNew(rows) EXCEPT !.visto_bueno = 0, !.visto_por = NULL,
                           !.visto_fecha = "NULL", !.revision_por = userId,
                           !.revision_fecha = "NOW", !.revision_motivo = motivo]>>

(***************************************************************************)
(* Request bodies: the values a field of req.body is drawn from.           *)
(***************************************************************************)
\* the longest revision_motivo the handler keeps
MaxMotivoLen == 255

\* a reason that is too long once trimmed
LongMotivo == <<" ">> \o [i \in 1..MaxMotivoLen |-> "a"] \o <<"b", " ">>

KpiIdInputs == {NULL, KpiId, MissingKpiId}
EmpleadoIdInputs == {NULL, keyEmp}
ValorInputs == {NullStr, <<" ">>, <<"9">>}
ColorInputs == {"NULL", "rojo"}
ComentarioInputs == {NullStr, <<"o", "k">>}
MotivoInputs == {NullStr, LongMotivo}

(***************************************************************************)
(* POST /dashboard/save                                                    *)
(***************************************************************************)
\* empleado_id given and not blank ? parseInt(empleado_id) : user.id
TargetEmployeeId(user, empleado_id) ==
  IF empleado_id # NULL THEN empleado_id ELSE user.id

hasValue(valor) == ~(valor = NullStr \/ Trim(valor) = <<>>)

\* score of an explicit color
ScoreOfColor(color) ==
  IF color = "rojo" THEN 40
  ELSE IF color = "amarillo" THEN 70
  ELSE IF color = "verde" THEN 100 ELSE NULL

\* resultadoColor and score as /save computes them
SaveGrade(kpi, valor, color) ==
  LET resultadoColor == IF color = "" THEN "NULL" ELSE color
  IN  IF hasValue(valor)
      THEN IF resultadoColor = "NULL"
           THEN LET r == scoreKpi(kpi, valor) IN [color |-> r.color, score |-> r.score]
           ELSE [color |-> resultadoColor, score |-> ScoreOfColor(resultadoColor)]
      ELSE [color |-> resultadoColor, score |-> NULL]

\* the permission check: own results, or results of a subordinate puesto
SaveForbidden(user, targetEmployeeId) ==
  IF targetEmployeeId # user.id /\ ~IsElevated(user.role)
  THEN LET subordinates == buildSubordinatePuestoIds(user.puesto_id, SelectPuestos)
           tRows == SelectEmpleado(targetEmployeeId)
           targetPuestoId == IF tRows # <<>> THEN tRows[1].puesto_id ELSE NULL
       IN  targetPuestoId = NULL \/ ~Includes(subordinates, targetPuestoId)
  ELSE FALSE

IsLocked(lockRows) == lockRows # <<>> /\ lockRows[1].visto_bueno = 1

LockedBy(lockRows) == IF lockRows # <<>> THEN lockRows[1].visto_por ELSE NULL

\* variant: whoever captures on results of their own may edit them locked
canEditOwnLocked(user, lockedBy) ==
  IF IsElevated(user.role) THEN TRUE
  ELSE IF lockedBy # NULL THEN canAccessEmployeeTree(user, keyEmp)
  ELSE FALSE

canEditLocked(user, lockedBy) ==
  IF IsElevated(user.role) THEN TRUE
  ELSE IF lockedBy # NULL /\ user.id = lockedBy THEN TRUE
  ELSE IF lockedBy # NULL THEN canAccessEmployeeTree(user, lockedBy)
  ELSE FALSE

\* the status the checks of /save end in, 200 when they all pass
SaveStatus(user, kpi_id, targetEmployeeId, lockRows) ==
  IF kpi_id = NULL THEN 400
  ELSE IF SelectKpi(kpi_id) = <<>> THEN 404
  ELSE IF SaveForbidden(user, targetEmployeeId) THEN 403
  ELSE IF IsLocked(lockRows) /\ ~canEditLocked(user, LockedBy(lockRows)) THEN 423
  ELSE 200

\* (comentario || null)
TextOrNull(x) == IF x = <<>> THEN NullStr ELSE x

\* the upsert of /save on the rows as they are when it runs
SaveUpsert(rows, kpi_id, valor, color, comentario) ==
  IF hasValue(valor)
  THEN UpsertValor(rows, valor, SaveGrade(SelectKpi(kpi_id)[1], valor, color).color,
                   TextOrNull(comentario))
  ELSE UpsertComentario(rows, TextOrNull(comentario))

\* the fields of req.body that a write reads; the checks read none of them
Body(valor, color, comentario, revision_motivo) ==
  [valor |-> valor, color |-> color, comentario |-> comentario,
   revision_motivo |-> revision_motivo]

NoBody == Body(NullStr, "NULL", NullStr, NullStr)

\* a response, with the requester and the body fields its handler has read
Response(op, user, status, body) ==
  [op |-> op, actor |-> user.id, status |-> status, body |-> body]

\* no response is on its way to a client
NoResponse == [op |-> "none", actor |-> NULL, status |-> 0, body |-> NoBody]

\* res.json / res.redirect: the client receives the response of its request
SendResponse ==
  /\ resp # NoResponse
  /\ resp' = NoResponse
  /\ UNCHANGED <<puestos, empleados, kpis, keyEmp, kpi_resultados, pending>>
  /\ UNCHANGED otherVars

\* an INSERT for an empleado_id without a row in empleados: the schema of
\* kpi_resultados is not part of the repository, so a foreign key may reject it
MayViolateForeignKey == keyEmp \notin DOMAIN empleados

\* the write of /save and its response
SaveWrite(user, kpi_id, valor, color, comentario) ==
  \/ /\ kpi_resultados' = SaveUpsert(kpi_resultados, kpi_id, valor, color, comentario)
     /\ resp' = Response("save", user, 200, Body(valor, color, comentario, NullStr))
  \/ /\ MayViolateForeignKey
     /\ kpi_resultados' = kpi_resultados
     /\ resp' = Response("save", user, IF hasValue(valor) THEN 500 ELSE 200,
                         Body(valor, color, comentario, NullStr))

\* the handler run without another request in between; valor, color and
\* comentario of the body are read by the write only
Save(user, kpi_id, empleado_id) ==
  /\ resp = NoResponse
  /\ TargetEmployeeId(user, empleado_id) = keyEmp
  /\ LET status == SaveStatus(user, kpi_id, keyEmp, kpi_resultados)
     IN  IF status = 200
         THEN \E valor \in ValorInputs, color \in ColorInputs,
                 comentario \in ComentarioInputs :
                   SaveWrite(user, kpi_id, valor, color, comentario)
         ELSE /\ resp' = Response("save", user, status, NoBody)
              /\ kpi_resultados' = kpi_resultados
  /\ UNCHANGED <<puestos, empleados, kpis, keyEmp, pending>>
  /\ UNCHANGED otherVars

\* the handler up to and including its lock read
SaveBegin(user, kpi_id, empleado_id) ==
  /\ resp = NoResponse
  /\ TargetEmployeeId(user, empleado_id) = keyEmp
  /\ Len(pending) < MaxInflight
  /\ LET status == SaveStatus(user, kpi_id, keyEmp, kpi_resultados)
     IN  IF status = 200
         THEN /\ \E valor \in ValorInputs, color \in ColorInputs,
                    comentario \in ComentarioInputs :
                      pending' = Append(pending,
                        [user |-> user, kpi_id |-> kpi_id, valor |-> valor,
                         color |-> color, comentario |-> comentario])
              /\ resp' = resp
         ELSE /\ resp' = Response("save", user, status, NoBody)
              /\ pending' = pending
  /\ UNCHANGED <<puestos, empleados, kpis, keyEmp, kpi_resultados>>
  /\ UNCHANGED otherVars

\* the upsert of a handler that passed its checks earlier
SaveEnd(i) ==
  /\ resp = NoResponse
  /\ i \in 1..Len(pending)
  /\ LET r == pending[i]
     IN  SaveWrite(r.user, r.kpi_id, r.valor, r.color, r.comentario)
  /\ pending' = SubSeq(pending, 1, i - 1) \o SubSeq(pending, i + 1, Len(pending))
  /\ UNCHANGED <<puestos, empleados, kpis, keyEmp>>
  /\ UNCHANGED otherVars

(***************************************************************************)
(* POST /dashboard/visto                                                   *)
(***************************************************************************)
\* variant: nobody without elevated role approves an own result
canApproveOthersOnly(user, targetEmployeeId) ==
  IF IsElevated(user.role) THEN TRUE
  ELSE IF targetEmployeeId = user.id THEN FALSE
  ELSE isDirectBossByPuesto(user, targetEmployeeId)

canApprove(user, targetEmployeeId) ==
  IF IsElevated(user.role) THEN TRUE
  ELSE IF targetEmployeeId = user.id THEN employeeHasNoDirectBoss(user.id)
  ELSE isDirectBossByPuesto(user, targetEmployeeId)

Visto(user, kpi_id, empleado_id) ==
  /\ resp = NoResponse
  /\ TargetEmployeeId(user, empleado_id) = keyEmp
  /\ IF kpi_id = NULL
     THEN /\ resp' = Response("visto", user, 400, NoBody)
          /\ kpi_resultados' = kpi_resultados
     ELSE IF ~canApprove(user, keyEmp)
     THEN /\ resp' = Response("visto", user, 403, NoBody)
          /\ kpi_resultados' = kpi_resultados
     ELSE \/ /\ kpi_resultados' = UpsertVisto(kpi_resultados, user.id)
             /\ resp' = Response("visto", user, 200, NoBody)
          \/ /\ MayViolateForeignKey
             /\ kpi_resultados' = kpi_resultados
             /\ resp' = Response("visto", user, 500, NoBody)
  /\ UNCHANGED <<puestos, empleados, kpis, keyEmp, pending>>
  /\ UNCHANGED otherVars

(***************************************************************************)
(* POST /dashboard/review and POST /dashboard/unlock                       *)
(***************************************************************************)
\* variant: slice before trim
SliceThenTrim(revision_motivo) ==
  Trim(Slice0(OrEmpty(revision_motivo), MaxMotivoLen))

\* (revision_motivo || '').toString().trim().slice(0, 255)
NormalizeMotivo(revision_motivo) ==
  Slice0(Trim(OrEmpty(revision_motivo)), MaxMotivoLen)

\* variant: no check that the target is another employee
sendToReviewAllowedOnSelf(user, targetEmployeeId) ==
  canAccessEmployeeTree(user, targetEmployeeId)

sendToReviewAllowed(user, targetEmployeeId) ==
  /\ canAccessEmployeeTree(user, targetEmployeeId)
  /\ ~(~IsElevated(user.role) /\ targetEmployeeId = user.id)

sendToReviewHandler(user, kpi_id, empleado_id) ==
  /\ resp = NoResponse
  /\ TargetEmployeeId(user, empleado_id) = keyEmp
  /\ IF kpi_id = NULL
     THEN /\ resp' = Response("review", user, 400, NoBody)
          /\ kpi_resultados' = kpi_resultados
     ELSE IF ~sendToReviewAllowed(user, keyEmp)
     THEN /\ resp' = Response("review", user, 403, NoBody)
          /\ kpi_resultados' = kpi_resultados
     ELSE \E revision_motivo \in MotivoInputs :
            \/ /\ kpi_resultados' = UpsertRevision(kpi_resultados, user.id,
                                                    NormalizeMotivo(revision_motivo))
               /\ resp' = Response("review", user, 200,
                                   Body(NullStr, "NULL", NullStr, revision_motivo))
            \/ /\ MayViolateForeignKey
               /\ kpi_resultados' = kpi_resultados
               /\ resp' = Response("review", user, 500,
                                   Body(NullStr, "NULL", NullStr, revision_motivo))
  /\ UNCHANGED <<puestos, empleados, kpis, keyEmp, pending>>
  /\ UNCHANGED otherVars

(***************************************************************************)
(* Initial states.  The hierarchy is the tree                              *)
(*     1 <- 2 <- ... <- Depth      and      1 <- Depth + 1,                *)
(* with at most one puesto whose role is admin or manager.  Employee p     *)
(* holds puesto p, employee NumPuestos + 1 is a second holder of puesto    *)
(* Depth and employee NumPuestos + 2 holds no puesto.  The key under study *)
(* belongs to any of them or to an unknown empleado_id.  One KPI, no       *)
(* result row yet.                                                         *)
(***************************************************************************)
SeedRespondeA(p) ==
  IF p = 1 THEN NULL
  ELSE IF p <= Depth THEN p - 1
  ELSE 1

SeedPuestoId(e) ==
  IF e <= NumPuestos THEN e
  ELSE IF e = NumPuestos + 1 THEN Depth
  ELSE NULL

\* role maps: puesto q has role r, every other puesto has role user
RoleMaps ==
  {[p \in Puestos |-> IF p = q THEN r ELSE "user"] : q \in Puestos, r \in Roles}

SeedKpi ==
  [id |-> KpiId, score_type |-> "NUMBER", direction |-> "HIGHER_BETTER",
   threshold_yellow |-> <<"5">>, threshold_green |-> <<"8">>,
   criterion_red |-> NullStr, criterion_yellow |-> NullStr,
   criterion_green |-> NullStr]

\* the tables and the request state before the first request
InitDatabase ==
  /\ \E roles \in RoleMaps :
       puestos = [p \in Puestos |->
                    [responde_a_id |-> SeedRespondeA(p), role |-> roles[p]]]
  /\ empleados = [e \in Empleados |-> [puesto_id |-> SeedPuestoId(e)]]
  /\ kpis = <<SeedKpi>>
  /\ keyEmp \in Empleados \cup {UnknownEmpleado}
  /\ kpi_resultados = <<>>
  /\ pending = <<>>
  /\ resp = NoResponse

\* every employee has logged in on the seeded organization
Init ==
  /\ InitDatabase
  /\ session = [e \in Empleados |-> SessionUser(e)]
  /\ edits = 0
  /\ InitRest

(***************************************************************************)
(* Requests.                                                               *)
(***************************************************************************)

\* the users that can hold a session
Users == {session[e] : e \in Empleados} \ {NoSession}

SaveRequest ==
  \E user \in Users, kpi_id \in KpiIdInputs, empleado_id \in EmpleadoIdInputs :
       Save(user, kpi_id, empleado_id)

SaveBeginRequest ==
  \E user \in Users, kpi_id \in KpiIdInputs, empleado_id \in EmpleadoIdInputs :
       SaveBegin(user, kpi_id, empleado_id)

SaveEndRequest == \E i \in 1..Len(pending) : SaveEnd(i)

VistoRequest ==
  \E user \in Users, kpi_id \in KpiIdInputs, empleado_id \in EmpleadoIdInputs :
       Visto(user, kpi_id, empleado_id)

ReviewRequest ==
  \E user \in Users, kpi_id \in KpiIdInputs, empleado_id \in EmpleadoIdInputs :
       sendToReviewHandler(user, kpi_id, empleado_id)

\* every handler runs to its response before the next request starts
Next == SaveRequest \/ VistoRequest \/ ReviewRequest \/ SendResponse

Spec == Init /\ [][Next]_vars

\* a capture may be overtaken between its lock read and its upsert
NextRace ==
  SaveBeginRequest \/ SaveEndRequest \/ VistoRequest \/ ReviewRequest \/ SendResponse

SpecRace == Init /\ [][NextRace]_vars

(***************************************************************************)
(* Sessions and the administration of the organization: POST /login,       *)
(* POST /puestos/editar/:id and POST /personal/edit/:id.  The /dashboard   *)
(* handlers read req.session.user, which only POST /login writes.          *)
(***************************************************************************)
\* sessions open at the same time
MaxSessions == 1
\* edits of puestos and empleados in one behaviour
MaxEdits == 1

OpenSessions == {e \in Empleados : session[e] # NoSession}

\* POST /login with the credentials of employee e
Login(e) ==
  /\ resp = NoResponse
  /\ e \in OpenSessions \/ Cardinality(OpenSessions) < MaxSessions
  /\ session' = [session EXCEPT ![e] = SessionUser(e)]
  /\ UNCHANGED <<puestos, empleados, kpis, keyEmp, kpi_resultados, pending, resp, edits>>
  /\ UNCHANGED restVars

\* requireRole(roles) on the role held in the session
requireRole(roles, user) == user.role \in roles

\* values of responde_a_id that leave the hierarchy without a cycle through
\* puesto id; id itself is kept, the handler refuses it
ResponderAInputs(id) ==
  {NULL} \cup {q \in Puestos :
                 ~Includes(buildSubordinatePuestoIds(id, SelectPuestos), q)}

\* POST /puestos/editar/:id, nombre given
EditarPuesto(user, id, responde_a_id, role) ==
  /\ resp = NoResponse
  /\ requireRole({"admin"}, user)
  /\ IF responde_a_id # NULL /\ responde_a_id = id
     THEN UNCHANGED <<puestos, edits>>
     ELSE /\ puestos' = [puestos EXCEPT ![id] =
                           [responde_a_id |-> responde_a_id,
                            role |-> IF user.role = "admin" THEN role
                                     ELSE puestos[id].role]]
          /\ edits' = edits + 1
  /\ UNCHANGED <<empleados, kpis, keyEmp, kpi_resultados, pending, resp, session>>
  /\ UNCHANGED restVars

\* POST /personal/edit/:id
EditarEmpleado(user, id, puesto_id) ==
  /\ resp = NoResponse
  /\ requireRole({"admin"}, user)
  /\ IF puesto_id = NULL \/ id \notin DOMAIN empleados \/ puesto_id \notin Puestos
     THEN UNCHANGED <<empleados, edits>>
     ELSE /\ empleados' = [empleados EXCEPT ![id].puesto_id = puesto_id]
          /\ edits' = edits + 1
  /\ UNCHANGED <<puestos, kpis, keyEmp, kpi_resultados, pending, resp, session>>
  /\ UNCHANGED restVars

\* nobody has logged in yet
InitSession ==
  /\ InitDatabase
  /\ session = [e \in Empleados |-> NoSession]
  /\ edits = 0
  /\ InitRest

LoginRequest == \E e \in Empleados : Login(e)

EditarPuestoRequest ==
  /\ edits < MaxEdits /\ resp = NoResponse
  /\ \E user \in Users, id \in Puestos, role \in Roles :
       \E responde_a_id \in ResponderAInputs(id) :
          EditarPuesto(user, id, responde_a_id, role)

EditarEmpleadoRequest ==
  /\ edits < MaxEdits /\ resp = NoResponse
  /\ \E user \in Users, id \in Empleados, puesto_id \in Puestos \cup {NULL} :
       EditarEmpleado(user, id, puesto_id)

NextSession ==
  \/ LoginRequest \/ EditarPuestoRequest \/ EditarEmpleadoRequest
  \/ SaveRequest \/ VistoRequest \/ ReviewRequest \/ SendResponse

SpecSession == InitSession /\ [][NextSession]_vars

(***************************************************************************)
(* Vocabulary of the properties, defined on the tables without the         *)
(* handlers' helpers.                                                      *)
(***************************************************************************)
\* the employee that sent the request answered by response r
Actor(r) == SessionUser(r.actor)

Elevated(r) == Actor(r).role \in {"admin", "manager"}

\* the puesto of an employee, NULL for none and for an unknown employee
PuestoOf(e) == IF e \in DOMAIN empleados THEN empleados[e].puesto_id ELSE NULL

\* the chain of responde_a_id from puesto p passes through q (p itself excluded);
\* with q = NULL, the chain's end
RECURSIVE ChainReaches(_, _)
ChainReaches(p, q) ==
  \/ puestos[p].responde_a_id = q
  \/ /\ puestos[p].responde_a_id # NULL
     /\ ChainReaches(puestos[p].responde_a_id, q)

\* employee t holds a puesto that is a subordinate, at any depth, of puesto q
InSubordinates(t, q) == PuestoOf(t) # NULL /\ ChainReaches(PuestoOf(t), q)

\* the puesto of employee t reports to puesto q exactly one level up
ReportsDirectlyTo(t, q) ==
  /\ PuestoOf(t) # NULL
  /\ q # NULL
  /\ puestos[PuestoOf(t)].responde_a_id = q

\* the result row before a request, with column defaults when there is none
RowBefore == IF kpi_resultados = <<>> THEN NewRow ELSE kpi_resultados[1]

Approved == kpi_resultados # <<>> /\ kpi_resultados[1].visto_bueno = 1

ApprovedBy == IF kpi_resultados # <<>> THEN kpi_resultados[1].visto_por ELSE NULL

\* the actor of response r may write to a row approved by employee a
OverrideRights(r, a) ==
  \/ Elevated(r)
  \/ a # NULL /\ r.actor = a
  \/ a # NULL /\ InSubordinates(a, Actor(r).puesto_id)

\* this step is the response of handler op
Answers(op) == resp = NoResponse /\ resp'.op = op

Unchanged == kpi_resultados' = kpi_resultados

\* the step changes none of valor, color, comentario of an existing row and
\* creates a row only with these three NULL
SameData ==
  /\ kpi_resultados' # <<>>
  /\ kpi_resultados'[1].valor = RowBefore.valor
  /\ kpi_resultados'[1].color = RowBefore.color
  /\ kpi_resultados'[1].comentario = RowBefore.comentario

C2_NoWriteAfterApprove ==
  [][ (Answers("save") /\ Approved /\ ~Unchanged) => OverrideRights(resp', ApprovedBy)
    ]_vars

(***************************************************************************)
(* C3.  An approve by an actor that is neither admin nor manager, for      *)
(* another employee, succeeds exactly when the puesto of that employee     *)
(* reports to the actor's puesto one level up; otherwise it is answered    *)
(* 403 and leaves the row as it was.                                       *)
(***************************************************************************)
C3_DirectBossOnly ==
  [][ (Answers("visto") /\ resp'.status # 400 /\ ~Elevated(resp')
         /\ resp'.actor # keyEmp)
        => IF ReportsDirectlyTo(keyEmp, Actor(resp').puesto_id)
           THEN resp'.status = 200
           ELSE resp'.status = 403 /\ Unchanged
    ]_vars

\* the boss of the boss was refused the approve
C3_Witness ==
  /\ resp.op = "visto" /\ resp.status = 403
  /\ ~Elevated(resp)
  /\ resp.actor # keyEmp
  /\ InSubordinates(keyEmp, Actor(resp).puesto_id)
  /\ ~ReportsDirectlyTo(keyEmp, Actor(resp).puesto_id)

(***************************************************************************)
(* C4, as claimed.  An approve of the actor's own result by an actor that  *)
(* is neither admin nor manager succeeds exactly when the actor's puesto   *)
(* has responde_a_id NULL.                                                 *)
(***************************************************************************)
HasRootPuesto(e) ==
  PuestoOf(e) # NULL /\ puestos[PuestoOf(e)].responde_a_id = NULL

C4_SelfApproveIffRootPuesto ==
  [][ (Answers("visto") /\ resp'.status # 400 /\ ~Elevated(resp')
         /\ resp'.actor = keyEmp)
        => (resp'.status = 200 <=> HasRootPuesto(keyEmp))
    ]_vars

(***************************************************************************)
(* C4, amended.  Such an approve succeeds exactly when the actor holds no  *)
(* puesto or holds a puesto whose responde_a_id is NULL, and is answered   *)
(* 403 otherwise; employeeHasNoDirectBoss is true of exactly these         *)
(* employees.                                                              *)
(***************************************************************************)
C4_SelfApproveIffNoBoss ==
  [][ /\ (Answers("visto") /\ resp'.status # 400 /\ ~Elevated(resp')
            /\ resp'.actor = keyEmp)
           => IF PuestoOf(keyEmp) = NULL \/ HasRootPuesto(keyEmp)
              THEN resp'.status = 200
              ELSE resp'.status = 403 /\ Unchanged
      /\ \A e \in Empleados :
           employeeHasNoDirectBoss(e) <=> (PuestoOf(e) = NULL \/ HasRootPuesto(e))
    ]_vars

\* an employee with a boss was refused the approve of an own result
C4_Witness ==
  /\ resp.op = "visto" /\ resp.status = 403
  /\ ~Elevated(resp)
  /\ resp.actor = keyEmp
  /\ PuestoOf(keyEmp) # NULL /\ ~HasRootPuesto(keyEmp)

(***************************************************************************)
(* C5.  After a successful approve by A the row exists, is approved by A,  *)
(* has no pending review, and has the valor, color and comentario it had   *)
(* (all NULL when the approve created it).                                 *)
(***************************************************************************)
C5_ApproveResult ==
  [][ (Answers("visto") /\ resp'.status = 200)
        => /\ SameData
           /\ kpi_resultados'[1].visto_bueno = 1
           /\ kpi_resultados'[1].visto_por = resp'.actor
           /\ kpi_resultados'[1].revision_por = NULL
           /\ kpi_resultados'[1].revision_fecha = "NULL"
           /\ kpi_resultados'[1].revision_motivo = NullStr
    ]_vars

\* an approve of a result that holds a value, a comment and no review
C5_Witness ==
  /\ resp.op = "visto" /\ resp.status = 200
  /\ kpi_resultados # <<>>
  /\ kpi_resultados[1].valor # NullStr
  /\ kpi_resultados[1].comentario # NullStr
  /\ kpi_resultados[1].visto_por = resp.actor

TrimmedAndCut(r) ==
  LET t == Trim(IF r = NullStr THEN <<>> ELSE r)
  IN  IF Len(t) <= MaxMotivoLen THEN t ELSE SubSeq(t, 1, MaxMotivoLen)

C7_ReviewResult ==
  [][ (Answers("review") /\ resp'.status = 200)
        => /\ SameData
           /\ kpi_resultados'[1].visto_bueno = 0
           /\ kpi_resultados'[1].visto_por = NULL
           /\ kpi_resultados'[1].visto_fecha = "NULL"
           /\ kpi_resultados'[1].revision_por = resp'.actor
           /\ kpi_resultados'[1].revision_motivo
                = TrimmedAndCut(resp'.body.revision_motivo)
           /\ Len(kpi_resultados'[1].revision_motivo) <= MaxMotivoLen
    ]_vars

\* a reason longer than 255 characters was stored for a result with a value
C7_Witness ==
  /\ resp.op = "review" /\ resp.status = 200
  /\ Len(Trim(resp.body.revision_motivo)) > MaxMotivoLen
  /\ kpi_resultados # <<>>
  /\ Len(kpi_resultados[1].revision_motivo) = MaxMotivoLen
  /\ kpi_resultados[1].valor # NullStr

Blank(v) == v = NullStr \/ \A i \in 1..Len(v) : v[i] = " "

C9_CaptureFrame ==
  [][ (Answers("save") /\ resp'.status = 200 /\ kpi_resultados' # <<>>)
        => /\ kpi_resultados'[1].visto_bueno = RowBefore.visto_bueno
           /\ kpi_resultados'[1].visto_por = RowBefore.visto_por
           /\ kpi_resultados'[1].visto_fecha = RowBefore.visto_fecha
           /\ kpi_resultados'[1].revision_por = RowBefore.revision_por
           /\ kpi_resultados'[1].revision_fecha = RowBefore.revision_fecha
           /\ kpi_resultados'[1].revision_motivo = RowBefore.revision_motivo
           /\ Blank(resp'.body.valor)
                => /\ kpi_resultados'[1].valor = RowBefore.valor
                   /\ kpi_resultados'[1].color = RowBefore.color
    ]_vars

\* the boss of the approver left a comment on an approved result with a value
C9_Witness ==
  /\ resp.op = "save" /\ resp.status = 200
  /\ ~Elevated(resp)
  /\ Blank(resp.body.valor)
  /\ Approved /\ ApprovedBy # resp.actor
  /\ kpi_resultados[1].valor # NullStr
  /\ kpi_resultados[1].comentario = resp.body.comentario
  /\ resp.body.comentario # NullStr

(***************************************************************************)
(* C10.  No capture, approve or send-to-review by an admin or a manager is *)
(* answered 403 or 423; for every employee and every state of the row, a   *)
(* request of theirs that names the KPI succeeds.                          *)
(***************************************************************************)
C10_ElevatedPass ==
  (resp.op \in {"save", "visto", "review"} /\ Elevated(resp))
    => /\ resp.status \notin {403, 423}
       /\ (keyEmp \in Empleados /\ resp.status \notin {400, 404}) => resp.status = 200

\* a manager captured on a result that another employee had approved
C10_Witness ==
  /\ resp.op = "save" /\ resp.status = 200
  /\ Actor(resp).role = "manager"
  /\ resp.actor # keyEmp
  /\ Approved /\ ApprovedBy # resp.actor
  /\ kpi_resultados[1].valor = resp.body.valor
  /\ ~Blank(resp.body.valor)

(***************************************************************************)
(* C11.  Every capture, approve and send-to-review is decided with the     *)
(* organization as it is when the request arrives: it is refused (403 or   *)
(* 423) exactly when the checks refuse the requester taken with the puesto *)
(* the employee holds now and the role that puesto has now.                *)
(***************************************************************************)
RefusedNow(op, user) ==
  CASE op = "save"   -> SaveStatus(user, KpiId, keyEmp, kpi_resultados) \in {403, 423}
    [] op = "visto"  -> ~canApprove(user, keyEmp)
    [] op = "review" -> ~sendToReviewAllowed(user, keyEmp)

C11_DecidedOnCurrentOrganization ==
  [][ \A op \in {"save", "visto", "review"} :
        (Answers(op) /\ resp'.status \notin {400, 404, 500})
          => (resp'.status \in {403, 423} <=> RefusedNow(op, Actor(resp')))
    ]_vars

(***************************************************************************)
(* Calls of single functions.  A call is drawn with its arguments, the     *)
(* action of the function stores what it returns.                          *)
(***************************************************************************)
Call(fn, args) == [fn |-> fn, args |-> args, ret |-> <<>>]

Calls(fn) == call.fn = fn /\ call.ret = <<>>

Returns(value) ==
  /\ call' = [call EXCEPT !.ret = <<value>>]
  /\ UNCHANGED <<puestos, empleados, kpis, keyEmp, kpi_resultados, pending, resp,
                 session, edits, puesto_kpis, saving>>

\* the call fn has returned
Returned(fn) == call.fn = fn /\ call.ret # <<>>

(***************************************************************************)
(* canAccessEmployeeTree(user, targetEmployeeId) for every session user    *)
(* and every target of the seeded organizations.                           *)
(***************************************************************************)
CallCanAccessEmployeeTree ==
  /\ Calls("canAccessEmployeeTree")
  /\ Returns(canAccessEmployeeTree(call.args[1], call.args[2]))

InitAccess ==
  /\ InitDatabase
  /\ session = [e \in Empleados |-> SessionUser(e)]
  /\ edits = 0
  /\ puesto_kpis = <<>>
  /\ saving = <<>>
  /\ call \in {Call("canAccessEmployeeTree", <<user, keyEmp>>) : user \in Users}

NextAccess == CallCanAccessEmployeeTree

SpecAccess == InitAccess /\ [][NextAccess]_vars

MaxPositions == 3

PositionIds == 1..MaxPositions
\* an id that no position of a list has
AbsentPositionId == MaxPositions + 1

\* the list with ids 1..MaxPositions in this order, or in the reverse order
PositionList(respondeA, reversed) ==
  [i \in 1..MaxPositions |->
     LET id == IF reversed THEN MaxPositions + 1 - i ELSE i
     IN  [id |-> id, responde_a_id |-> respondeA[id]]]

\* the responde_a_id of position id, NULL past the end of a chain
Parent(respondeA, id) == IF id \in PositionIds THEN respondeA[id] ELSE NULL

RECURSIVE Ancestor(_, _, _)
\* the n-th position above id
Ancestor(respondeA, id, n) ==
  IF n = 0 THEN id ELSE Ancestor(respondeA, Parent(respondeA, id), n - 1)

\* no position is above itself
NoCycle(respondeA) ==
  \A id \in PositionIds : \A n \in 1..MaxPositions : Ancestor(respondeA, id, n) # id

RespondeAMaps == [PositionIds -> {NULL} \cup PositionIds \cup {AbsentPositionId}]

PositionLists ==
  {PositionList(respondeA, reversed) : respondeA \in RespondeAMaps, reversed \in BOOLEAN}

AcyclicPositionLists ==
  {PositionList(respondeA, reversed) :
     respondeA \in {m \in RespondeAMaps : NoCycle(m)}, reversed \in BOOLEAN}

BuildSubordinatePuestoIdsCalls ==
  {Call("buildSubordinatePuestoIds", <<puestoId, puestoMap>>) :
     puestoId \in {NULL} \cup PositionIds \cup {AbsentPositionId},
     puestoMap \in AcyclicPositionLists}

CallBuildSubordinatePuestoIds ==
  /\ Calls("buildSubordinatePuestoIds")
  /\ Returns(buildSubordinatePuestoIds(call.args[1], call.args[2]))

(***************************************************************************)
(* routes/organigrama.js buildPositionTree.  The nodes are objects shared  *)
(* between posMap and the children arrays, so the forest is the array of   *)
(* root ids and the children array of each node.                           *)
(***************************************************************************)
\* the ids of rows, in their order
IdsOf(rows) == [i \in 1..Len(rows) |-> rows[i].id]

\* variant: only a position without responde_a_id is a root
buildPositionTreeOfNullRoots(positions) ==
      [roots |-> IdsOf(SelectSeq(positions, LAMBDA p : p.responde_a_id = NULL)),
       children |->
         [id \in {positions[i].id : i \in 1..Len(positions)} |->
            IdsOf(SelectSeq(positions, LAMBDA p : p.responde_a_id = id))]]

buildPositionTree(positions) ==
  LET posMapHas(id) == \E i \in 1..Len(positions) : positions[i].id = id
      HasParent(p) == p.responde_a_id # NULL /\ posMapHas(p.responde_a_id)
  IN  [roots |-> IdsOf(SelectSeq(positions, LAMBDA p : ~HasParent(p))),
       children |->
         [id \in {positions[i].id : i \in 1..Len(positions)} |->
            IdsOf(SelectSeq(positions, LAMBDA p : HasParent(p) /\ p.responde_a_id = id))]]

BuildPositionTreeCalls ==
  {Call("buildPositionTree", <<positions>>) : positions \in PositionLists}

CallBuildPositionTree ==
  /\ Calls("buildPositionTree")
  /\ Returns(buildPositionTree(call.args[1]))

(***************************************************************************)
(* scoreKpi(kpi, rawValue) on rows of kpis and captured values.            *)
(***************************************************************************)
\* values and thresholds are drawn from -1..MaxNumber
MaxNumber == 2
Numbers == (0 - 1)..MaxNumber

DigitChar(d) ==
  CASE d = 0 -> "0" [] d = 1 -> "1" [] d = 2 -> "2" [] d = 3 -> "3"
    [] d = 4 -> "4" [] d = 5 -> "5" [] d = 6 -> "6" [] d = 7 -> "7"
    [] d = 8 -> "8" [] d = 9 -> "9"

RECURSIVE NatText(_)
NatText(n) ==
  IF n < 10 THEN <<DigitChar(n)>>
  ELSE NatText(n \div 10) \o <<DigitChar(n % 10)>>

\* String(n) of an integer n
IntText(n) == IF n < 0 THEN <<"-">> \o NatText(0 - n) ELSE NatText(n)

NumberTexts == {IntText(n) : n \in Numbers}

\* kpis.threshold_yellow, kpis.threshold_green
ThresholdInputs == NumberTexts \cup {<<"1", ".", "5">>, NullStr, <<>>, <<"x">>}

\* kpis.criterion_red, kpis.criterion_yellow, kpis.criterion_green
CriterionInputs == {NullStr, <<" ">>, <<"a">>, <<"A">>, <<" ", "a", " ">>, <<"b">>}

\* the captured value
RawValueInputs ==
  NumberTexts \cup
  {<<"1", ".", "5">>, <<"1", ",", "5">>, <<"2", "%">>, <<"1", "x">>,
   NullStr, <<>>, <<" ">>, <<"x">>, <<"a">>, <<"A">>, <<"a", " ">>, <<"b">>}

ThresholdKpis ==
  {[NoKpi EXCEPT !.id = KpiId, !.score_type = st, !.direction = d,
                 !.threshold_yellow = ty, !.threshold_green = tg] :
     st \in {"NUMBER", "PERCENT", "percent", "NULL"},
     d \in {"HIGHER_BETTER", "LOWER_BETTER", "lower_better", "NULL"},
     ty \in ThresholdInputs, tg \in ThresholdInputs}

CriterionKpis ==
  {[NoKpi EXCEPT !.id = KpiId, !.score_type = st, !.criterion_red = r,
                 !.criterion_yellow = y, !.criterion_green = g] :
     st \in {"CRITERION", "criterion"},
     r \in CriterionInputs, y \in CriterionInputs, g \in CriterionInputs}

ScoreKpiCalls ==
  {Call("scoreKpi", <<kpi, rawValue>>) :
     kpi \in {NoKpi} \cup ThresholdKpis \cup CriterionKpis,
     rawValue \in RawValueInputs}

CallScoreKpi ==
  /\ Calls("scoreKpi")
  /\ Returns(scoreKpi(call.args[1], call.args[2]))

(***************************************************************************)
(* The score of a color: in /dashboard/save for an explicit color, and in  *)
(* the reports (routes/kpis.js scoreFromColor after normalizeColor) for    *)
(* the color of a stored row.  Colors are strings; trim and toLowerCase    *)
(* are tabulated on the spellings that occur.                              *)
(***************************************************************************)
\* String(color).trim().toLowerCase()
TrimToLowerCase(c) ==
  CASE c = "ROJO" -> "rojo"
    [] c = " verde " -> "verde"
    [] c = "Green" -> "green"
    [] OTHER -> c

normalizeColor(color) ==
  LET c == TrimToLowerCase(IF color = "NULL" THEN "" ELSE color)
  IN  IF c = "red" THEN "rojo"
      ELSE IF c = "yellow" THEN "amarillo"
      ELSE IF c = "green" THEN "verde"
      ELSE c

scoreFromColor(color) ==
  IF color = "rojo" THEN 40
  ELSE IF color = "amarillo" THEN 70
  ELSE IF color = "verde" THEN 100
  ELSE NULL

\* puntaje of a row r of kpi_resultados in a report
puntaje(r) == scoreFromColor(normalizeColor(IF r.color = "NULL" THEN "" ELSE r.color))

\* req.body.color, and kpi_resultados.color
ColorSpellings ==
  {"rojo", "amarillo", "verde", "red", "yellow", "green", "Green", "ROJO",
   " verde ", "azul"}

ScoreFromColorCalls ==
  {Call("scoreFromColor", <<color>>) : color \in ColorSpellings \cup {"", "NULL"}}

CallScoreFromColor ==
  /\ Calls("scoreFromColor")
  /\ Returns(scoreFromColor(call.args[1]))

PuntajeCalls ==
  {Call("puntaje", <<[color |-> color]>>) : color \in ColorSpellings \cup {"", "NULL"}}

CallPuntaje ==
  /\ Calls("puntaje")
  /\ Returns(puntaje(call.args[1]))

\* kpi, valor and color of a capture
SaveGradeCalls ==
  {Call("SaveGrade", <<kpi, valor, color>>) :
     kpi \in {k \in ThresholdKpis : k.score_type = "NUMBER" /\ k.direction = "NULL"},
     valor \in {NullStr, <<" ">>, <<"1">>, <<"x">>},
     color \in ColorSpellings \cup {"", "NULL"}}

CallSaveGrade ==
  /\ Calls("SaveGrade")
  /\ Returns(SaveGrade(call.args[1], call.args[2], call.args[3]))

(***************************************************************************)
(* routes/kpis.js getDefaultPeriod(now).  A Date is its local year, month  *)
(* (getMonth(), 0..11) and day of month (getDate()).                       *)
(***************************************************************************)
\* the dates are those of MaxYears consecutive years, a leap year first
MaxYears == 2
Years == 2024..(2023 + MaxYears)

IsLeapYear(y) == (y % 4 = 0 /\ y % 100 # 0) \/ y % 400 = 0

DaysInMonth(y, m) ==
  IF m = 1 THEN (IF IsLeapYear(y) THEN 29 ELSE 28)
  ELSE IF m \in {3, 5, 8, 10} THEN 30 ELSE 31

Dates ==
  {now \in [year : Years, month : 0..11, date : 1..31] :
     now.date <= DaysInMonth(now.year, now.month)}

\* variant: the first nine days belong to the previous month
getDefaultPeriodBeforeDay10(now) ==
  LET year == now.year
      month == now.month + 1
  IN  IF now.date < 10
      THEN IF month - 1 < 1
           THEN [year |-> year - 1, month |-> 12]
           ELSE [year |-> year, month |-> month - 1]
      ELSE [year |-> year, month |-> month]

getDefaultPeriod(now) ==
  LET year == now.year
      month == now.month + 1
  IN  IF now.date <= 10
      THEN IF month - 1 < 1
           THEN [year |-> year - 1, month |-> 12]
           ELSE [year |-> year, month |-> month - 1]
      ELSE [year |-> year, month |-> month]

GetDefaultPeriodCalls == {Call("getDefaultPeriod", <<now>>) : now \in Dates}

CallGetDefaultPeriod ==
  /\ Calls("getDefaultPeriod")
  /\ Returns(getDefaultPeriod(call.args[1]))

(***************************************************************************)
(* The rows of the workbooks (routes/kpis.js buildEmployeeWorkbook and     *)
(* buildTeamWorkbook) for the KPIs of one puesto in one month.  An entry   *)
(* is what the database holds for a KPI: puesto_kpis.peso and the color of *)
(* the result row.                                                         *)
(***************************************************************************)
\* KPIs assigned to the puesto
MaxEntries == 2

\* puesto_kpis.peso as the driver returns a DECIMAL(5,2)
StoredPesos ==
  {<<"6", "0", ".", "0", "0">>, <<"4", "0", ".", "0", "0">>,
   <<"3", "3", ".", "3", "3">>, <<"3", "3", ".", "3", "5">>,
   <<"0", ".", "0", "0">>}

\* kpi_resultados.color, "NULL" also for a KPI without result row
StoredColors == {"verde", "amarillo", "rojo", "NULL"}

WorkbookEntries ==
  UNION {[1..n -> [peso : StoredPesos, color : StoredColors]] : n \in 1..MaxEntries}

\* x.toFixed(2) of q hundredths, q >= 0
ToFixed2(q) ==
  NatText(q \div 100) \o <<".", DigitChar((q % 100) \div 10), DigitChar(q % 10)>>

\* .replace(/\.0+$/, '').replace(/(\.\d*[1-9])0+$/, '$1') on a text with two decimals
StripZeros(t) ==
  LET n == Len(t)
  IN  IF t[n] = "0" /\ t[n - 1] = "0" THEN SubSeq(t, 1, n - 3)
      ELSE IF t[n] = "0" THEN SubSeq(t, 1, n - 1)
      ELSE t

\* puntaje * (pesoVal / 100) with toFixed(2) and the zeros stripped, or ''.
\* The product is a double: where it lies half way between two hundredths
\* its rounding error decides the direction, up or not.
puntajePonderado(score, pesoVal, up) ==
  IF pesoVal.ok /\ score # NULL
  THEN LET den == Pow10(pesoVal.e)
           q == (score * pesoVal.m) \div den
           r == (score * pesoVal.m) % den
       IN  StripZeros(ToFixed2(IF 2 * r > den \/ (2 * r = den /\ up) THEN q + 1 ELSE q))
  ELSE <<>>

\* the cells of the row of KPI kpi with result row r
WorkbookRow(kpi, r, up) ==
  LET score == puntaje(r)
      pesoVal == toNumberOrNull(kpi.peso)
  IN  [puntaje |-> score,
       peso |-> IF pesoVal.ok THEN kpi.peso ELSE <<>>,
       puntaje_ponderado |-> puntajePonderado(score, pesoVal, up)]

\* getKPIsByPosition: SELECT k.*, pk.peso
getKPIsByPosition(entries) == [i \in DOMAIN entries |-> [peso |-> entries[i].peso]]

\* pkRows of buildTeamWorkbook: SELECT pk.puesto_id, k.*, so kpi.peso is undefined
pkRows(entries) == [i \in DOMAIN entries |-> [peso |-> NullStr]]

buildEmployeeWorkbook(entries, up) ==
  LET kpiRows == getKPIsByPosition(entries)
  IN  [i \in DOMAIN entries |-> WorkbookRow(kpiRows[i], entries[i], up)]

buildTeamWorkbook(entries, up) ==
  LET kpiRows == pkRows(entries)
  IN  [i \in DOMAIN entries |-> WorkbookRow(kpiRows[i], entries[i], up)]

WorkbookCalls ==
  {Call(fn, <<entries>>) :
     fn \in {"buildEmployeeWorkbook", "buildTeamWorkbook"}, entries \in WorkbookEntries}

CallBuildEmployeeWorkbook ==
  /\ Calls("buildEmployeeWorkbook")
  /\ \E up \in BOOLEAN : Returns(buildEmployeeWorkbook(call.args[1], up))

CallBuildTeamWorkbook ==
  /\ Calls("buildTeamWorkbook")
  /\ \E up \in BOOLEAN : Returns(buildTeamWorkbook(call.args[1], up))

PureCalls ==
  BuildSubordinatePuestoIdsCalls \cup BuildPositionTreeCalls \cup ScoreKpiCalls
    \cup ScoreFromColorCalls \cup PuntajeCalls \cup SaveGradeCalls
    \cup GetDefaultPeriodCalls \cup WorkbookCalls

\* no table has a row, nobody has logged in
InitPure ==
  /\ puestos = <<>>
  /\ empleados = <<>>
  /\ kpis = <<>>
  /\ keyEmp = NULL
  /\ kpi_resultados = <<>>
  /\ pending = <<>>
  /\ resp = NoResponse
  /\ session = <<>>
  /\ edits = 0
  /\ puesto_kpis = <<>>
  /\ saving = <<>>
  /\ call \in PureCalls

NextPure ==
  \/ CallBuildSubordinatePuestoIds
  \/ CallBuildPositionTree
  \/ CallScoreKpi
  \/ CallScoreFromColor
  \/ CallPuntaje
  \/ CallSaveGrade
  \/ CallGetDefaultPeriod
  \/ CallBuildEmployeeWorkbook
  \/ CallBuildTeamWorkbook

SpecPure == InitPure /\ [][NextPure]_vars

(***************************************************************************)
(* Vocabulary for position lists.                                          *)
(***************************************************************************)
ListIds(list) == {list[i].id : i \in 1..Len(list)}

ListRow(list, id) == CHOOSE r \in {list[i] : i \in 1..Len(list)} : r.id = id

RECURSIVE ListChainReaches(_, _, _, _)
\* the chain of responde_a_id of position id passes through q within n links
ListChainReaches(list, id, q, n) ==
  /\ n > 0
  /\ id \in ListIds(list)
  /\ \/ ListRow(list, id).responde_a_id = q
     \/ ListChainReaches(list, ListRow(list, id).responde_a_id, q, n - 1)

SeqToSet(seq) == {seq[i] : i \in 1..Len(seq)}

NoDuplicates(seq) == \A i, j \in 1..Len(seq) : seq[i] = seq[j] => i = j

\* for a puestoId that is the id of some position or of none: exactly the
\* positions whose chain reaches it, each once
ExactSubordinates ==
  (Returned("buildSubordinatePuestoIds") /\ call.args[1] # NULL)
    => LET puestoId == call.args[1]
           list == call.args[2]
           ret == call.ret[1]
       IN  /\ SeqToSet(ret) = {id \in ListIds(list) :
                                 ListChainReaches(list, id, puestoId, Len(list))}
           /\ NoDuplicates(ret)
           /\ puestoId \notin SeqToSet(ret)

\* some position of the list responds to a position that is not in the list
Dangling(list, id) ==
  id # NULL /\ id \notin ListIds(list) /\ \E i \in 1..Len(list) : list[i].responde_a_id = id

\* for a puestoId that no position of the list has, null included, and that
\* no position responds to: nothing
AbsentYieldsEmpty ==
  (Returned("buildSubordinatePuestoIds") /\ call.args[1] \notin ListIds(call.args[2])
     /\ ~Dangling(call.args[2], call.args[1]))
    => call.ret[1] = <<>>

(***************************************************************************)
(* C13.  For every acyclic position list and every puestoId,               *)
(* buildSubordinatePuestoIds returns exactly the ids of the positions      *)
(* whose chain of responde_a_id reaches puestoId, each once and never      *)
(* puestoId; a puestoId that no position of the list has yields the empty  *)
(* result.                                                                 *)
(***************************************************************************)
C13_SubordinatePositionIds == ExactSubordinates /\ AbsentYieldsEmpty

(***************************************************************************)
(* C14.  buildPositionTree returns a forest over the positions of the      *)
(* list: a position is a root exactly when its responde_a_id is null or    *)
(* the id of no position of the list; every other position is, once, in    *)
(* the children of the node with the id it responds to and of no other     *)
(* node; in an acyclic list every position is reachable from exactly one   *)
(* root.                                                                   *)
(***************************************************************************)
RECURSIVE ReachableFrom(_, _, _, _)
\* node id is node r or below it, within n levels
ReachableFrom(tree, r, id, n) ==
  \/ r = id
  \/ /\ n > 0
     /\ \E i \in 1..Len(tree.children[r]) :
          ReachableFrom(tree, tree.children[r][i], id, n - 1)

ListNoCycle(list) ==
  \A id \in ListIds(list) : ~ListChainReaches(list, id, id, Len(list))

\* C14: roots, children and reachability of the forest
C14_PositionForest ==
  Returned("buildPositionTree")
    => LET list == call.args[1]
           tree == call.ret[1]
           IsRoot(id) == id \in SeqToSet(tree.roots)
           RespondeA(id) == ListRow(list, id).responde_a_id
       IN  /\ SeqToSet(tree.roots) \subseteq ListIds(list)
           /\ NoDuplicates(tree.roots)
           /\ DOMAIN tree.children = ListIds(list)
           /\ \A id \in ListIds(list) :
                /\ IsRoot(id) <=> (RespondeA(id) = NULL \/ RespondeA(id) \notin ListIds(list))
                /\ NoDuplicates(tree.children[id])
                /\ \A n \in ListIds(list) :
                     id \in SeqToSet(tree.children[n]) <=> (~IsRoot(id) /\ RespondeA(id) = n)
           /\ ListNoCycle(list)
                => \A id \in ListIds(list) :
                     Cardinality({r \in SeqToSet(tree.roots) :
                                    ReachableFrom(tree, r, id, Len(list))}) = 1

\* a root that responds to a missing position, with a grandchild
C14_Witness ==
  /\ Returned("buildPositionTree")
  /\ \E r \in SeqToSet(call.ret[1].roots) :
       /\ ListRow(call.args[1], r).responde_a_id = AbsentPositionId
       /\ \E c \in SeqToSet(call.ret[1].children[r]) : call.ret[1].children[c] # <<>>

(***************************************************************************)
(* C15.  For a NUMBER or PERCENT KPI whose thresholds are the integers ty  *)
(* and tg and a captured integer v: under HIGHER_BETTER the result is      *)
(* verde/100 when v >= tg, otherwise amarillo/70 when v >= ty, otherwise   *)
(* rojo/40; under LOWER_BETTER the same with <=.  The thresholds are       *)
(* inclusive and the green one is tested first, also when ty and tg are    *)
(* inverted.                                                               *)
(***************************************************************************)
Graded(color, score) == ScoreResult(color, score, "NULL")

\* scoreKpi has returned for thresholds ty, tg and value v, all integers
ScoredNumbers(st, d, ty, tg, v) ==
  /\ Returned("scoreKpi")
  /\ call.args[1] # NoKpi
  /\ call.args[1].score_type = st
  /\ call.args[1].direction = d
  /\ call.args[1].threshold_yellow = IntText(ty)
  /\ call.args[1].threshold_green = IntText(tg)
  /\ call.args[2] = IntText(v)

\* C15: the grade of integer values against integer thresholds
C15_ThresholdGrades ==
  \A st \in {"NUMBER", "PERCENT"} : \A d \in {"HIGHER_BETTER", "LOWER_BETTER"} :
    \A ty \in Numbers : \A tg \in Numbers : \A v \in Numbers :
      ScoredNumbers(st, d, ty, tg, v)
        => LET Reaches(t) == IF d = "HIGHER_BETTER" THEN v >= t ELSE v <= t
           IN  call.ret[1] = IF Reaches(tg) THEN Graded("verde", 100)
                             ELSE IF Reaches(ty) THEN Graded("amarillo", 70)
                             ELSE Graded("rojo", 40)

\* a value on the green threshold and below an inverted yellow one is verde
C15_Witness ==
  /\ ScoredNumbers("PERCENT", "HIGHER_BETTER", 2, 1, 1)
  /\ call.ret[1].color = "verde"

(***************************************************************************)
(* C16.  For a CRITERION KPI with at least one criterion configured the    *)
(* grade is decided by exact, case-sensitive equality of the trimmed       *)
(* value and the trimmed criteria, tested in the order green, yellow, red: *)
(* the first configured criterion that equals the value wins, and a value  *)
(* equal to none of them gets no grade.                                    *)
(***************************************************************************)
\* a text without its spaces, the empty text for null (no input has an inner space)
Stripped(s) == IF s = NullStr THEN <<>> ELSE SelectSeq(s, LAMBDA c : c # " ")

\* scoreKpi has returned for a CRITERION KPI
ScoredCriterion ==
  /\ Returned("scoreKpi")
  /\ call.args[1] \in CriterionKpis

Configured(criterion) == Stripped(criterion) # <<>>

\* the captured value equals a configured criterion
Matches(criterion) ==
  Configured(criterion) /\ Stripped(call.args[2]) = Stripped(criterion)

\* C16: the first configured criterion equal to the value decides
C16_CriterionGrades ==
  (/\ ScoredCriterion
   /\ \/ Configured(call.args[1].criterion_green)
      \/ Configured(call.args[1].criterion_yellow)
      \/ Configured(call.args[1].criterion_red))
    => call.ret[1] =
         IF Matches(call.args[1].criterion_green) THEN Graded("verde", 100)
         ELSE IF Matches(call.args[1].criterion_yellow) THEN Graded("amarillo", 70)
         ELSE IF Matches(call.args[1].criterion_red) THEN Graded("rojo", 40)
         ELSE ScoreResult("NULL", NULL, "Valor no coincide con criterio")

\* a padded value that equals the green and the yellow criterion is verde
C16_Witness ==
  /\ ScoredCriterion
  /\ call.args[2] = <<"a", " ">>
  /\ call.args[1].criterion_green = <<" ", "a", " ">>
  /\ call.args[1].criterion_yellow = <<"a">>
  /\ call.args[1].criterion_red = <<"A">>
  /\ call.ret[1].color = "verde"

(***************************************************************************)
(* C17.  scoreKpi always returns a result, and the result has no color, no *)
(* score and a reason exactly when the KPI is absent, when a CRITERION KPI *)
(* has no criterion configured, when the value of a CRITERION KPI (an      *)
(* empty one included) equals none of the configured criteria, when no     *)
(* number can be read from the value of a NUMBER or PERCENT KPI, or when   *)
(* no number can be read from one of its thresholds.  It is never rojo in  *)
(* these cases.                                                            *)
(***************************************************************************)
\* a number starts the text once its spaces and percent signs are dropped
ReadsNumber(s) ==
  /\ s # NullStr
  /\ LET t == SelectSeq(s, LAMBDA c : c \notin {" ", "%"})
     IN  /\ t # <<>>
         /\ \/ IsDigit(t[1])
            \/ Len(t) >= 2 /\ t[1] \in {"-", "+", "."} /\ IsDigit(t[2])

Unscored(result) ==
  /\ result.color = "NULL"
  /\ result.score = NULL
  /\ result.reason # "NULL"

\* the cases in which a value cannot be graded
Unscoreable(kpi, rawValue) ==
  \/ kpi = NoKpi
  \/ /\ kpi \in CriterionKpis
     /\ ~Matches(kpi.criterion_green)
     /\ ~Matches(kpi.criterion_yellow)
     /\ ~Matches(kpi.criterion_red)
  \/ /\ kpi \in ThresholdKpis
     /\ \/ ~ReadsNumber(rawValue)
        \/ ~ReadsNumber(kpi.threshold_yellow)
        \/ ~ReadsNumber(kpi.threshold_green)

\* C17: no grade exactly in the cases that cannot be graded
C17_NeverFabricates ==
  Returned("scoreKpi")
    => /\ call.ret[1].color \in {"NULL", "rojo", "amarillo", "verde"}
       /\ Unscoreable(call.args[1], call.args[2]) <=> Unscored(call.ret[1])
       /\ ~Unscoreable(call.args[1], call.args[2])
            => call.ret[1].score # NULL /\ call.ret[1].reason = "NULL"

\* a text that is no number, captured for a KPI with both thresholds
C17_Witness ==
  /\ Returned("scoreKpi")
  /\ call.args[1] \in ThresholdKpis
  /\ call.args[2] = <<"x">>
  /\ ReadsNumber(call.args[1].threshold_yellow)
  /\ ReadsNumber(call.args[1].threshold_green)
  /\ Unscored(call.ret[1])

(***************************************************************************)
(* C18.  One map from grade to score, rojo to 40, amarillo to 70, verde to *)
(* 100 and anything else to null, is used everywhere: by every result of   *)
(* scoreKpi, by scoreFromColor, by /dashboard/save for the explicit color  *)
(* it was given, and by a report for the color of a stored row.            *)
(***************************************************************************)
GradeScore(grade) ==
  CASE grade = "rojo" -> 40
    [] grade = "amarillo" -> 70
    [] grade = "verde" -> 100
    [] OTHER -> NULL

\* /dashboard/save was given an explicit color
ExplicitColor == call.args[3] \notin {"", "NULL"}

C18_ClassifierScore ==
  Returned("scoreKpi") => call.ret[1].score = GradeScore(call.ret[1].color)

C18_ScoreFromColor ==
  Returned("scoreFromColor") => call.ret[1] = GradeScore(call.args[1])

C18_CaptureScore ==
  (Returned("SaveGrade") /\ ExplicitColor)
    => /\ call.ret[1].color = call.args[3]
       /\ call.ret[1].score = GradeScore(call.args[3])

C18_ReportScore ==
  Returned("puntaje") => call.ret[1] = GradeScore(call.args[1].color)

\* C18: the classifier, scoreFromColor, the capture and the report all
\* give a grade the score of GradeScore
C18_OneScoreMap ==
  /\ C18_ClassifierScore
  /\ C18_ScoreFromColor
  /\ C18_CaptureScore
  /\ C18_ReportScore

(***************************************************************************)
(* C19.  For every date getDefaultPeriod returns the previous calendar     *)
(* month when the day of the month is at most 10, January giving month 12  *)
(* of the previous year, and the month and year of the date from day 11    *)
(* on; the month returned is in 1..12.  10 March gives month 2, 11 March   *)
(* month 3, 1 January month 12 of the previous year.                       *)
(***************************************************************************)
\* getDefaultPeriod has returned for day d of calendar month m (1..12) of year y
DefaultPeriodOf(y, m, d) ==
  /\ Returned("getDefaultPeriod")
  /\ call.args[1] = [year |-> y, month |-> m - 1, date |-> d]

\* C19: the period of every date
C19_DefaultPeriod ==
  \A y \in Years : \A m \in 1..12 : \A d \in 1..31 :
    DefaultPeriodOf(y, m, d)
      => /\ call.ret[1].month \in 1..12
         /\ (d <= 10 /\ m > 1) => call.ret[1] = [year |-> y, month |-> m - 1]
         /\ (d <= 10 /\ m = 1) => call.ret[1] = [year |-> y - 1, month |-> 12]
         /\ d >= 11 => call.ret[1] = [year |-> y, month |-> m]
         /\ (m = 3 /\ d = 10) => call.ret[1].month = 2
         /\ (m = 3 /\ d = 11) => call.ret[1].month = 3

\* day 10 of January is still the December of the year before
C19_Witness ==
  \E y \in Years :
    /\ DefaultPeriodOf(y, 1, 10)
    /\ call.ret[1] = [year |-> y - 1, month |-> 12]

(***************************************************************************)
(* POST /puestos/:id, the KPI assignments of a puesto.  Table puesto_kpis  *)
(* is the sequence of the rows of one puesto, [kpi_id, peso], with peso    *)
(* DECIMAL(5,2) in hundredths.  Each handler runs up to its first await    *)
(* when the request arrives; DELETE and every INSERT are steps of their    *)
(* own, since no transaction encloses them.  saving holds the requests:    *)
(* [handler, pesoValues, pc, next].                                        *)
(***************************************************************************)
\* requests to POST /puestos/:id in a behavior
MaxSaves == 2

PesoKpiIds == {1, 2}

\* req.body.kpi_ids
KpiIdsInputs == {<<>>, <<1>>, <<2>>, <<1, 2>>, <<2, 1>>, <<1, 1>>}

\* req.body.pesos[kpi_id]
PesoInputs ==
  {<<"1", "0", "0">>, <<"6", "0">>, <<"4", "0">>, <<"5", "0">>,
   <<"5", "9", ",", "5">>, <<>>, <<"x">>}

\* kpi_ids without the later occurrences of an id
RECURSIVE Unique(_)
Unique(ids) ==
  IF ids = <<>> THEN <<>>
  ELSE LET front == Unique(SubSeq(ids, 1, Len(ids) - 1))
           last == ids[Len(ids)]
       IN  IF \E i \in 1..Len(front) : front[i] = last THEN front
           ELSE Append(front, last)

\* parseFloat(String(raw).replace(',', '.')), 0 when it is not finite
PesoVal(raw) ==
  LET num == parseFloat(ReplaceFirst(raw, ",", <<".">>))
  IN  IF num.ok THEN num.m * Pow10(2 - num.e) ELSE 0

PesoValues(kpi_ids, pesos) ==
  [i \in 1..Len(kpi_ids) |-> [id |-> kpi_ids[i], peso |-> PesoVal(pesos[kpi_ids[i]])]]

RECURSIVE TotalPeso(_)
TotalPeso(rows) ==
  IF rows = <<>> THEN 0 ELSE rows[1].peso + TotalPeso(Tail(rows))

Abs(x) == IF x < 0 THEN 0 - x ELSE x

\* Math.abs(totalPeso - 100) > 0.01, in hundredths
SumaInvalida(pesoValues) == Abs(TotalPeso(pesoValues) - 10000) > 1

PesosRequest(handler, pesoValues, pc) ==
  [handler |-> handler, pesoValues |-> pesoValues, pc |-> pc, next |-> 1]

pesosOtherVars ==
  <<puestos, empleados, kpis, keyEmp, kpi_resultados, pending, resp, session,
    edits, call>>

\* server.js: requireRole(['admin']), the checks before the first await
PostPuestoKpis(role, kpi_ids, pesos) ==
  /\ Len(saving) < MaxSaves
  /\ LET pesoValues == PesoValues(Unique(kpi_ids), pesos)
     IN  saving' = Append(saving,
           IF ~requireRole({"admin"}, [role |-> role])
           THEN PesosRequest("server", <<>>, "forbidden")
           ELSE IF kpi_ids = <<>>
           THEN PesosRequest("server", <<>>, "rejected")
           ELSE IF SumaInvalida(pesoValues)
           THEN PesosRequest("server", pesoValues, "rejected")
           ELSE PesosRequest("server", pesoValues, "delete"))
  /\ UNCHANGED puesto_kpis
  /\ UNCHANGED pesosOtherVars

\* routes/positions.js: no weights; column peso takes its DEFAULT 0
PostPuestoKpisSinPeso(role, kpi_ids) ==
  /\ Len(saving) < MaxSaves
  /\ saving' = Append(saving,
       IF ~requireRole({"admin", "manager"}, [role |-> role])
       THEN PesosRequest("positions", <<>>, "forbidden")
       ELSE PesosRequest("positions",
                        [i \in 1..Len(kpi_ids) |-> [id |-> kpi_ids[i], peso |-> 0]],
                        "delete"))
  /\ UNCHANGED puesto_kpis
  /\ UNCHANGED pesosOtherVars

\* DELETE FROM puesto_kpis WHERE puesto_id = ?
DeletePuestoKpis(i) ==
  /\ saving[i].pc = "delete"
  /\ puesto_kpis' = <<>>
  /\ saving' = [saving EXCEPT ![i].pc =
                  IF saving[i].pesoValues = <<>> THEN "done" ELSE "insert"]
  /\ UNCHANGED pesosOtherVars

\* one INSERT INTO puesto_kpis of the loop; a row of the same KPI is either
\* refused by a unique key, which ends the handler in its catch, or added
InsertPuestoKpi(i) ==
  /\ saving[i].pc = "insert"
  /\ LET row == saving[i].pesoValues[saving[i].next]
         last == saving[i].next = Len(saving[i].pesoValues)
         added ==
           /\ puesto_kpis' = Append(puesto_kpis, [kpi_id |-> row.id, peso |-> row.peso])
           /\ saving' = [saving EXCEPT ![i].pc = IF last THEN "done" ELSE "insert",
                                       ![i].next = IF last THEN @ ELSE @ + 1]
         refused ==
           /\ puesto_kpis' = puesto_kpis
           /\ saving' = [saving EXCEPT ![i].pc = "failed"]
     IN  IF \E k \in 1..Len(puesto_kpis) : puesto_kpis[k].kpi_id = row.id
         THEN added \/ refused
         ELSE added
  /\ UNCHANGED pesosOtherVars

\* the assignments before the first request: none, or one KPI of weight 100
InitPesos ==
  /\ puestos = <<>>
  /\ empleados = <<>>
  /\ kpis = <<>>
  /\ keyEmp = NULL
  /\ kpi_resultados = <<>>
  /\ pending = <<>>
  /\ resp = NoResponse
  /\ session = <<>>
  /\ edits = 0
  /\ call = NoCall
  /\ puesto_kpis \in {<<>>, <<[kpi_id |-> 1, peso |-> 10000]>>}
  /\ saving = <<>>

PostPuestoKpisRequest ==
  \E role \in {"admin", "manager"} : \E kpi_ids \in KpiIdsInputs :
    \E pesos \in [PesoKpiIds -> PesoInputs] :
      PostPuestoKpis(role, kpi_ids, pesos)

PostPuestoKpisSinPesoRequest ==
  \E role \in {"admin", "user"} : \E kpi_ids \in KpiIdsInputs :
    PostPuestoKpisSinPeso(role, kpi_ids)

DeleteStep == \E i \in 1..Len(saving) : DeletePuestoKpis(i)

InsertStep == \E i \in 1..Len(saving) : InsertPuestoKpi(i)

NextPesos ==
  \/ PostPuestoKpisRequest
  \/ PostPuestoKpisSinPesoRequest
  \/ DeleteStep
  \/ InsertStep

SpecPesos == InitPesos /\ [][NextPesos]_vars

(***************************************************************************)
(* C20.  A save of the KPI assignments of a puesto is accepted only if the *)
(* weights of the selected KPIs sum to 100 within 0.01, and a rejected     *)
(* save changes nothing; so whenever no save is in flight, two concurrent  *)
(* saves included, the weights stored for a puesto that has assignments    *)
(* sum to 100 within 0.01.                                                 *)
(***************************************************************************)
InFlight(i) == saving[i].pc \in {"delete", "insert"}

SumsTo100(rows) == Abs(TotalPeso(rows) - 10000) <= 1

\* C20: a save gets to its DELETE only with weights that sum to 100
C20_AcceptedOnlyWithSum100 ==
  \A i \in 1..Len(saving) :
    (saving[i].handler = "server" /\ saving[i].pc \notin {"forbidden", "rejected"})
      => SumsTo100(saving[i].pesoValues)

\* C20: once every save has completed the stored weights sum to 100
C20_StoredWeightsSumTo100 ==
  (\A i \in 1..Len(saving) : ~InFlight(i))
    => (puesto_kpis = <<>> \/ SumsTo100(puesto_kpis))

\* the same for the behaviors in which only server.js handles the saves
C20_ServerSavesSumTo100 ==
  (\A i \in 1..Len(saving) : ~InFlight(i) /\ saving[i].handler = "server")
    => (puesto_kpis = <<>> \/ SumsTo100(puesto_kpis))

\* ... and in which no INSERT was refused
C20_CompletedServerSavesSumTo100 ==
  (\A i \in 1..Len(saving) :
     saving[i].handler = "server" /\ saving[i].pc \in {"forbidden", "rejected", "done"})
    => (puesto_kpis = <<>> \/ SumsTo100(puesto_kpis))

(***************************************************************************)
(* C21.  The weighted result of a puesto is the sum, over the entries with *)
(* a score and a numeric weight, of score * weight / 100; an entry without *)
(* score or without numeric weight adds nothing and is shown blank, not as *)
(* 0.  For the scores 100 and 40 with the weights 60 and 40 the total is   *)
(* 76.  Each contribution is compared up to its rounding to two decimals.  *)
(***************************************************************************)
\* a workbook has been built from the stored entries
WorkbookBuilt ==
  Returned("buildEmployeeWorkbook") \/ Returned("buildTeamWorkbook")

\* the stored weight of entry e in hundredths (DECIMAL(5,2): d.dd)
StoredHundredths(e) ==
  LET t == SelectSeq(e.peso, LAMBDA c : c # ".")
      n == Len(t)
  IN  IF n = 3 THEN 100 * DigitVal(t[1]) + 10 * DigitVal(t[2]) + DigitVal(t[3])
      ELSE 1000 * DigitVal(t[1]) + 100 * DigitVal(t[2]) + 10 * DigitVal(t[3])
           + DigitVal(t[4])

\* a reported contribution in hundredths
CellHundredths(t) ==
  LET n == toNumberOrNull(t) IN n.m * Pow10(2 - n.e)

Contributes(e) == GradeScore(e.color) # NULL

\* row i shows the contribution of entry i, or nothing
ContributionShown(i) ==
  LET e == call.args[1][i]
      cell == call.ret[1][i].puntaje_ponderado
  IN  IF Contributes(e)
      THEN /\ cell # <<>>
           /\ 2 * Abs(100 * CellHundredths(cell) - GradeScore(e.color) * StoredHundredths(e)) <= 100
      ELSE cell = <<>>

ExampleEntries ==
  <<[peso |-> <<"6", "0", ".", "0", "0">>, color |-> "verde"],
    [peso |-> <<"4", "0", ".", "0", "0">>, color |-> "rojo"]>>

ExampleTotal ==
  call.args[1] = ExampleEntries
    => /\ call.ret[1][1].puntaje_ponderado = <<"6", "0">>
       /\ call.ret[1][2].puntaje_ponderado = <<"1", "6">>

\* C21 for the workbook of one employee
C21_EmployeeContributions ==
  Returned("buildEmployeeWorkbook")
    => (ExampleTotal /\ \A i \in DOMAIN call.args[1] : ContributionShown(i))

\* C21 for every workbook
C21_WeightedContributions ==
  WorkbookBuilt => (ExampleTotal /\ \A i \in DOMAIN call.args[1] : ContributionShown(i))

(***************************************************************************)
(* POST /kpis/create and POST /kpis/update/:id on table kpis.  The         *)
(* repository holds two versions of both handlers: routes/kpis.js writes   *)
(* the fields of the form as they come, the other one (routes/auth.js)     *)
(* passes them through normalizeKpiPayload first.  A missing or empty      *)
(* field of the form is the empty text.                                    *)
(***************************************************************************)
\* rows of table kpis
MaxKpis == 2

ScoreTypeInputs == {"", "CRITERION", "NUMBER", "percent"}
DirectionInputs == {"", "LOWER_BETTER", "x"}
UnidadInputs == {"numero", "porcentaje"}
\* threshold_yellow and threshold_green of the form (both fields alike)
ThresholdFields == {<<>>, <<"1", "5", "0">>}
\* criterion_red, criterion_yellow and criterion_green of the form (all alike)
CriterionFields == {<<>>, <<"a">>}

KpiPayloads ==
  [nombre : {"", "n"}, unidad : UnidadInputs, score_type : ScoreTypeInputs,
   direction : DirectionInputs, threshold : ThresholdFields,
   criterion : CriterionFields]

\* Number(text) is finite: digits only in the texts that occur
IsNumberText(t) == t # <<>> /\ \A i \in 1..Len(t) : IsDigit(t[i])

\* the text of the smaller of Number(t) and 100
Min100Text(t) == IF Len(t) > 2 /\ t # <<"1", "0", "0">> THEN <<"1", "0", "0">> ELSE t

clampPct100(val) ==
  IF val = NullStr \/ val = <<>> THEN NullStr
  ELSE IF ~IsNumberText(val) THEN NullStr
  ELSE Min100Text(val)

toNullableNumber(val) ==
  IF val = NullStr \/ val = <<>> THEN NullStr
  ELSE IF IsNumberText(val) THEN val ELSE NullStr

toNullableText(val) ==
  IF val = NullStr THEN NullStr
  ELSE IF Trim(val) = <<>> THEN NullStr ELSE Trim(val)

\* the row routes/kpis.js writes for the form
KpiRowOfForm(id, body) ==
  LET threshold == IF body.unidad = "porcentaje" THEN clampPct100(body.threshold)
                   ELSE body.threshold
  IN  [id |-> id,
       score_type |-> IF body.score_type = "" THEN "PERCENT" ELSE body.score_type,
       direction |-> IF body.direction = "" THEN "HIGHER_BETTER" ELSE body.direction,
       threshold_yellow |-> toNullableNumber(threshold),
       threshold_green |-> toNullableNumber(threshold),
       criterion_red |-> IF body.criterion = <<>> THEN NullStr ELSE body.criterion,
       criterion_yellow |-> IF body.criterion = <<>> THEN NullStr ELSE body.criterion,
       criterion_green |-> IF body.criterion = <<>> THEN NullStr ELSE body.criterion]

\* the row written after normalizeKpiPayload
normalizeKpiPayload(id, raw) ==
  LET upper == ToUpperCase(IF raw.score_type = "" THEN "PERCENT" ELSE raw.score_type)
      score_type == IF upper \in {"PERCENT", "NUMBER", "CRITERION"} THEN upper
                    ELSE "PERCENT"
      direction == IF score_type # "CRITERION"
                   THEN IF raw.direction \in {"HIGHER_BETTER", "LOWER_BETTER"}
                        THEN raw.direction ELSE "HIGHER_BETTER"
                   ELSE "NULL"
      number == toNullableNumber(raw.threshold)
      threshold == IF raw.unidad = "porcentaje" THEN clampPct100(number) ELSE number
      criterion == toNullableText(raw.criterion)
  IN  [id |-> id,
       score_type |-> score_type,
       direction |-> direction,
       threshold_yellow |-> IF score_type = "CRITERION" THEN NullStr ELSE threshold,
       threshold_green |-> IF score_type = "CRITERION" THEN NullStr ELSE threshold,
       criterion_red |-> IF score_type = "CRITERION" THEN criterion ELSE NullStr,
       criterion_yellow |-> IF score_type = "CRITERION" THEN criterion ELSE NullStr,
       criterion_green |-> IF score_type = "CRITERION" THEN criterion ELSE NullStr]

kpisOtherVars ==
  <<puestos, empleados, keyEmp, kpi_resultados, pending, resp, session, edits,
    call, puesto_kpis, saving>>

\* routes/kpis.js POST /create
CreateKpi(role, body) ==
  /\ requireRole({"admin", "manager"}, [role |-> role])
  /\ body.nombre # ""
  /\ Len(kpis) < MaxKpis
  /\ kpis' = Append(kpis, KpiRowOfForm(Len(kpis) + 1, body))
  /\ UNCHANGED kpisOtherVars

\* routes/kpis.js POST /update/:id
UpdateKpi(role, id, body) ==
  /\ requireRole({"admin", "manager"}, [role |-> role])
  /\ id \in 1..Len(kpis)
  /\ kpis' = [kpis EXCEPT ![id] = KpiRowOfForm(id, body)]
  /\ UNCHANGED kpisOtherVars

\* POST /create with normalizeKpiPayload
CreateKpiNormalized(role, body) ==
  /\ requireRole({"admin", "manager"}, [role |-> role])
  /\ body.nombre # ""
  /\ Len(kpis) < MaxKpis
  /\ kpis' = Append(kpis, normalizeKpiPayload(Len(kpis) + 1, body))
  /\ UNCHANGED kpisOtherVars

\* POST /update/:id with normalizeKpiPayload
UpdateKpiNormalized(role, id, body) ==
  /\ requireRole({"admin", "manager"}, [role |-> role])
  /\ id \in 1..Len(kpis)
  /\ kpis' = [kpis EXCEPT ![id] = normalizeKpiPayload(id, body)]
  /\ UNCHANGED kpisOtherVars

InitKpis ==
  /\ puestos = <<>>
  /\ empleados = <<>>
  /\ kpis = <<>>
  /\ keyEmp = NULL
  /\ kpi_resultados = <<>>
  /\ pending = <<>>
  /\ resp = NoResponse
  /\ session = <<>>
  /\ edits = 0
  /\ InitRest

CreateKpiRequest ==
  \E role \in {"admin", "user"} : \E body \in KpiPayloads : CreateKpi(role, body)

UpdateKpiRequest ==
  \E role \in {"manager", "user"} : \E id \in 1..MaxKpis :
    \E body \in {b \in KpiPayloads : b.nombre = "n"} : UpdateKpi(role, id, body)

CreateKpiNormalizedRequest ==
  \E role \in {"manager", "user"} : \E body \in KpiPayloads :
    CreateKpiNormalized(role, body)

UpdateKpiNormalizedRequest ==
  \E role \in {"admin", "user"} : \E id \in 1..MaxKpis :
    \E body \in {b \in KpiPayloads : b.nombre = "n"} : UpdateKpiNormalized(role, id, body)

NextKpis ==
  \/ CreateKpiRequest
  \/ UpdateKpiRequest
  \/ CreateKpiNormalizedRequest
  \/ UpdateKpiNormalizedRequest

SpecKpis == InitKpis /\ [][NextKpis]_vars

(***************************************************************************)
(* C22.  Every row of kpis written by a create or an update has, with      *)
(* score_type CRITERION, no thresholds and no direction, and with          *)
(* score_type NUMBER or PERCENT, no criteria and the direction             *)
(* HIGHER_BETTER or LOWER_BETTER, also after an update that changes the    *)
(* score_type of the row.                                                  *)
(***************************************************************************)
ExclusiveBranches(k) ==
  /\ k.score_type = "CRITERION"
       => /\ k.threshold_yellow = NullStr
          /\ k.threshold_green = NullStr
          /\ k.direction = "NULL"
  /\ k.score_type \in {"NUMBER", "PERCENT"}
       => /\ k.criterion_red = NullStr
          /\ k.criterion_yellow = NullStr
          /\ k.criterion_green = NullStr
          /\ k.direction \in {"HIGHER_BETTER", "LOWER_BETTER"}

\* C22: the rows of kpis keep thresholds and criteria apart
C22_ExclusiveBranches == \A i \in 1..Len(kpis) : ExclusiveBranches(kpis[i])

(***************************************************************************)
(* The status of a result row as the reports show it.                      *)
(***************************************************************************)
statusFromResult(rows) ==
  IF rows # <<>> /\ rows[1].visto_bueno = 1 THEN "APROBADO"
  ELSE IF rows # <<>> /\ rows[1].revision_por # NULL THEN "EN REVISION"
  ELSE "ABIERTO"

\* no handler is between its request and its response
AtRest == resp = NoResponse

\* approved = false with a pending review
InReview ==
  /\ kpi_resultados # <<>>
  /\ kpi_resultados[1].visto_bueno = 0
  /\ kpi_resultados[1].revision_por # NULL

\* the key belongs to a row of empleados
KnownEmployee == keyEmp \in DOMAIN empleados

\* some user is admin or manager, or holds a puesto above that of the key's
\* employee
SomeoneAbove ==
  \E u \in Users :
       u.role \in {"admin", "manager"} \/ InSubordinates(keyEmp, u.puesto_id)

\* a capture that creates the row leaves it OPEN
FirstCaptureOpens ==
  (Answers("save") /\ kpi_resultados = <<>> /\ kpi_resultados' # <<>>)
     => /\ kpi_resultados'[1].visto_bueno = 0
        /\ kpi_resultados'[1].visto_por = NULL
        /\ kpi_resultados'[1].revision_por = NULL
        /\ kpi_resultados'[1].revision_fecha = "NULL"
        /\ kpi_resultados'[1].revision_motivo = NullStr
        /\ statusFromResult(kpi_resultados') = "ABIERTO"

\* one approve takes the row, absent or in any status, to APPROVED
CanApproveNow ==
  ENABLED (VistoRequest /\ statusFromResult(kpi_resultados') = "APROBADO")

\* one sendToReview takes the row, absent or in any status, to IN_REVIEW
CanReviewNow ==
  ENABLED (ReviewRequest /\ statusFromResult(kpi_resultados') = "EN REVISION")

RowsAfterSave(rows) ==
  IF \E user \in Users : SaveStatus(user, KpiId, keyEmp, rows) = 200
  THEN {SaveUpsert(rows, KpiId, valor, color, comentario) :
          valor \in ValorInputs, color \in ColorInputs,
          comentario \in ComentarioInputs}
  ELSE {}

RowsAfterVisto(rows) ==
  {UpsertVisto(rows, user.id) : user \in {u \in Users : canApprove(u, keyEmp)}}

RowsAfterReview(rows) ==
  {UpsertRevision(rows, user.id, NormalizeMotivo(revision_motivo)) :
     user \in {u \in Users : sendToReviewAllowed(u, keyEmp)},
     revision_motivo \in MotivoInputs}

RowsAfterRequest(rows) ==
  RowsAfterSave(rows) \cup RowsAfterVisto(rows) \cup RowsAfterReview(rows)

\* the rows that sequences of requests lead to from the rows in seen
RECURSIVE RowsAfterRequests(_)
RowsAfterRequests(seen) ==
  LET more == seen \cup UNION {RowsAfterRequest(rows) : rows \in seen}
  IN  IF more = seen THEN seen ELSE RowsAfterRequests(more)

\* approved = false and nothing of a review on the row
OpenRow(rows) ==
  /\ rows # <<>>
  /\ rows[1].visto_bueno = 0
  /\ rows[1].revision_por = NULL
  /\ rows[1].revision_fecha = "NULL"
  /\ rows[1].revision_motivo = NullStr

(***************************************************************************)
(* C24, as claimed.  From a row IN_REVIEW some sequence of capture,        *)
(* approve and sendToReview requests leads to a row with approved = false  *)
(* and review_requested_by, review_requested_at and review_reason null.    *)
(***************************************************************************)
C24_ReviewCanReturnToOpen ==
  (AtRest /\ InReview)
     => \E rows \in RowsAfterRequests({kpi_resultados}) : OpenRow(rows)

\* the row is approved and nothing of a review is left on it
ApprovedAndCleared ==
  /\ Approved
  /\ kpi_resultados[1].revision_por = NULL
  /\ kpi_resultados[1].revision_fecha = "NULL"
  /\ kpi_resultados[1].revision_motivo = NullStr

\* a capture by some user passes the checks of /save
CanCaptureNow == ENABLED (SaveRequest /\ resp'.status = 200)

\* an accepted capture of a value on a row IN_REVIEW writes the value and
\* leaves the row IN_REVIEW
CaptureInReview ==
  (Answers("save") /\ InReview /\ KnownEmployee /\ resp'.status = 200
     /\ hasValue(resp'.body.valor))
     => /\ kpi_resultados'[1].valor = resp'.body.valor
        /\ InReview'

(***************************************************************************)
(* C24, amended.  A row IN_REVIEW is editable and leaves IN_REVIEW only to *)
(* APPROVED: a capture on it succeeds and keeps review_requested_by set,   *)
(* and the only step that clears the review columns is an approve, which   *)
(* sets approved = true; a row that is IN_REVIEW or APPROVED is IN_REVIEW  *)
(* or APPROVED after every step, so no sequence of requests takes it back  *)
(* to OPEN.                                                                *)
(***************************************************************************)
C24_ReviewEndsOnlyInApproval ==
  /\ [][ InReview => (InReview' \/ (Answers("visto") /\ ApprovedAndCleared')) ]_vars
  /\ []((AtRest /\ InReview /\ KnownEmployee) => CanCaptureNow)
  /\ [][CaptureInReview]_vars
  /\ [][ (InReview \/ Approved) => (InReview' \/ Approved') ]_vars

\* a capture has written a value to a row that is IN_REVIEW, and it still is
C24_Witness ==
  /\ resp.op = "save" /\ resp.status = 200
  /\ resp.body.valor = <<"9">>
  /\ InReview
  /\ kpi_resultados[1].valor = <<"9">>

(***************************************************************************)
(* Organizations with cycles.  buildSubordinatePuestoIds runs frame by     *)
(* frame on the call stack of the engine inside the hierarchy check of     *)
(* /save and inside canAccessEmployeeTree of /review.  The stack of the    *)
(* engine is finite: a call past its limit throws a RangeError, which the  *)
(* try/catch of the handler turns into its error response.  The limit is   *)
(* larger than what any acyclic organization needs.                        *)
(***************************************************************************)
MaxStack == NumPuestos + 2

\* a running call of buildSubordinatePuestoIds: its argument, the index of
\* the for loop and the array built so far
Frame(puestoId) == [puestoId |-> puestoId, i |-> 1, subordinates |-> <<>>]

\* the handler op waits for the subordinates of the requester's puesto
HierarchyCall(op, user, kpi_id, empleado_id) ==
  [fn |-> op, args |-> <<user, kpi_id, empleado_id>>, ret |-> <<>>,
   thrown |-> FALSE, stack |-> <<Frame(user.puesto_id)>>]

\* /save: targetEmployeeId !== user.id and the role is not elevated;
\* canAccessEmployeeTree: the same two tests
NeedsSubordinates(user, kpi_id, targetEmployeeId) ==
  /\ kpi_id # NULL
  /\ SelectKpi(kpi_id) # <<>>
  /\ targetEmployeeId # user.id
  /\ ~IsElevated(user.role)

\* the handlers that need no subordinates run as in the acyclic organization;
\* the others start the recursion
BeginHierarchyRequest(op, user, kpi_id, empleado_id) ==
  /\ resp = NoResponse
  /\ call = NoCall
  /\ TargetEmployeeId(user, empleado_id) = keyEmp
  /\ IF op = "review" THEN kpi_id # NULL ELSE TRUE
  /\ NeedsSubordinates(user, kpi_id, keyEmp)
  /\ call' = HierarchyCall(op, user, kpi_id, empleado_id)
  /\ UNCHANGED <<puestos, empleados, kpis, keyEmp, kpi_resultados, pending, resp,
                 session, edits, puesto_kpis, saving>>

\* the running handler and its stack
Running == call.fn \in {"save", "review"} /\ call.ret = <<>> /\ ~call.thrown

Top == call.stack[Len(call.stack)]

\* the indexes of the for loop, from the current one, at which the test
\* p.responde_a_id === puestoId is true
MatchesFrom(frame) ==
  {j \in frame.i..NumPuestos : SelectPuestos[j].responde_a_id = frame.puestoId}

NextMatch(frame) == CHOOSE j \in MatchesFrom(frame) : \A k \in MatchesFrom(frame) : j <= k

hierarchyOtherVars ==
  <<puestos, empleados, kpis, keyEmp, kpi_resultados, pending, resp, session,
    edits, puesto_kpis, saving>>

\* variant: a position whose call is already on the stack is passed over
RecurseUnlessVisited ==
  /\ Running
  /\ MatchesFrom(Top) # {}
  /\ Len(call.stack) < MaxStack
  /\ LET j == NextMatch(Top)
         n == Len(call.stack)
         p == SelectPuestos[j]
     IN  IF \E k \in 1..n : call.stack[k].puestoId = p.id
         THEN call' = [call EXCEPT !.stack[n].i = j + 1]
         ELSE call' = [call EXCEPT
                         !.stack = Append([call.stack EXCEPT
                                             ![n].i = j + 1,
                                             ![n].subordinates = Append(@, p.id)],
                                          Frame(p.id))]
  /\ UNCHANGED hierarchyOtherVars

\* the loop reaches a position that responds to puestoId: push its id and call
\* buildSubordinatePuestoIds(p.id, puestoMap)
Recurse ==
  /\ Running
  /\ MatchesFrom(Top) # {}
  /\ Len(call.stack) < MaxStack
  /\ LET j == NextMatch(Top)
         n == Len(call.stack)
         p == SelectPuestos[j]
     IN  call' = [call EXCEPT
                    !.stack = Append([call.stack EXCEPT
                                        ![n].i = j + 1,
                                        ![n].subordinates = Append(@, p.id)],
                                     Frame(p.id))]
  /\ UNCHANGED hierarchyOtherVars

\* the same call with the stack of the engine exhausted: RangeError, which no
\* frame of buildSubordinatePuestoIds catches
StackOverflow ==
  /\ Running
  /\ MatchesFrom(Top) # {}
  /\ Len(call.stack) = MaxStack
  /\ call' = [call EXCEPT !.thrown = TRUE, !.stack = <<>>]
  /\ UNCHANGED hierarchyOtherVars

\* the loop ends: return subordinates, which the caller concatenates to its own
ReturnSubordinates ==
  /\ Running
  /\ MatchesFrom(Top) = {}
  /\ LET n == Len(call.stack)
     IN  IF n = 1
         THEN call' = [call EXCEPT !.ret = <<Top.subordinates>>, !.stack = <<>>]
         ELSE call' = [call EXCEPT
                         !.stack = [SubSeq(call.stack, 1, n - 1) EXCEPT
                                      ![n - 1].subordinates = @ \o Top.subordinates]]
  /\ UNCHANGED hierarchyOtherVars

\* /save after its hierarchy check, with the subordinates the call returned
SaveWithSubordinates ==
  /\ call.fn = "save" /\ call.ret # <<>>
  /\ LET user == call.args[1]
         kpi_id == call.args[2]
         subordinates == call.ret[1]
         tRows == SelectEmpleado(keyEmp)
         targetPuestoId == IF tRows # <<>> THEN tRows[1].puesto_id ELSE NULL
         status ==
           IF targetPuestoId = NULL \/ ~Includes(subordinates, targetPuestoId) THEN 403
           ELSE IF IsLocked(kpi_resultados)
                   /\ ~canEditLocked(user, LockedBy(kpi_resultados)) THEN 423
           ELSE 200
     IN  IF status = 200
         THEN \E valor \in ValorInputs, color \in ColorInputs,
                 comentario \in ComentarioInputs :
                   SaveWrite(user, kpi_id, valor, color, comentario)
         ELSE /\ resp' = Response("save", user, status, NoBody)
              /\ kpi_resultados' = kpi_resultados
  /\ call' = NoCall
  /\ UNCHANGED <<puestos, empleados, kpis, keyEmp, pending, session, edits,
                 puesto_kpis, saving>>

\* sendToReviewHandler after canAccessEmployeeTree, with the subordinates the
\* call returned; the target is not the requester
ReviewWithSubordinates ==
  /\ call.fn = "review" /\ call.ret # <<>>
  /\ LET user == call.args[1]
         subordinatePuestos == call.ret[1]
         tRows == SelectEmpleado(keyEmp)
         targetPuestoId == IF tRows # <<>> THEN tRows[1].puesto_id ELSE NULL
         allowed == targetPuestoId # NULL /\ Includes(subordinatePuestos, targetPuestoId)
     IN  IF ~allowed
         THEN /\ resp' = Response("review", user, 403, NoBody)
              /\ kpi_resultados' = kpi_resultados
         ELSE \E revision_motivo \in MotivoInputs :
                \/ /\ kpi_resultados' = UpsertRevision(kpi_resultados, user.id,
                                                        NormalizeMotivo(revision_motivo))
                   /\ resp' = Response("review", user, 200,
                                       Body(NullStr, "NULL", NullStr, revision_motivo))
                \/ /\ MayViolateForeignKey
                   /\ kpi_resultados' = kpi_resultados
                   /\ resp' = Response("review", user, 500,
                                       Body(NullStr, "NULL", NullStr, revision_motivo))
  /\ call' = NoCall
  /\ UNCHANGED <<puestos, empleados, kpis, keyEmp, pending, session, edits,
                 puesto_kpis, saving>>

\* catch (e) of /save and catch (err) of sendToReviewHandler
CatchRangeError ==
  /\ call.fn \in {"save", "review"} /\ call.thrown
  /\ resp' = Response(call.fn, call.args[1], 500, NoBody)
  /\ call' = NoCall
  /\ UNCHANGED <<puestos, empleados, kpis, keyEmp, kpi_resultados, pending, session,
                 edits, puesto_kpis, saving>>

\* every puesto but the last responds to none, to itself or to any other; the
\* last one responds to puesto 1 as in the seeded tree
HierarchyMaps ==
  {m \in [Puestos -> {NULL} \cup Puestos] : m[NumPuestos] = SeedRespondeA(NumPuestos)}

\* nobody is admin or manager: an elevated requester needs no subordinates
InitHierarchy ==
  /\ \E respondeA \in HierarchyMaps :
       puestos = [p \in Puestos |-> [responde_a_id |-> respondeA[p], role |-> "user"]]
  /\ empleados = [e \in Empleados |-> [puesto_id |-> SeedPuestoId(e)]]
  /\ kpis = <<SeedKpi>>
  /\ keyEmp \in Empleados
  /\ kpi_resultados = <<>>
  /\ pending = <<>>
  /\ resp = NoResponse
  /\ session = [e \in Empleados |-> SessionUser(e)]
  /\ edits = 0
  /\ InitRest

HierarchyRequest ==
  \E op \in {"save", "review"}, user \in Users, empleado_id \in EmpleadoIdInputs :
       BeginHierarchyRequest(op, user, KpiId, empleado_id)

NextHierarchy ==
  \/ HierarchyRequest
  \/ Recurse
  \/ StackOverflow
  \/ ReturnSubordinates
  \/ SaveWithSubordinates
  \/ ReviewWithSubordinates
  \/ CatchRangeError
  \/ SendResponse

SpecHierarchy == InitHierarchy /\ [][NextHierarchy]_vars

(***************************************************************************)
(* Vocabulary for organizations with cycles.                               *)
(***************************************************************************)
RECURSIVE BossAt(_, _)
\* the puesto n levels above p, NULL past the top
BossAt(p, n) ==
  IF n = 0 \/ p = NULL THEN p ELSE BossAt(puestos[p].responde_a_id, n - 1)

\* puesto p is above itself
OnCycle(p) == p # NULL /\ \E n \in 1..NumPuestos : BossAt(p, n) = p

\* the handler in progress belongs to a requester whose puesto is on a cycle
CallOnCycle == call.fn \in {"save", "review"} /\ OnCycle(call.args[1].puesto_id)

\* the response answers a capture or sendToReview for another employee by a
\* requester whose puesto is on a cycle
AnsweredOnCycle ==
  /\ resp.op \in {"save", "review"}
  /\ resp.actor # keyEmp
  /\ OnCycle(Actor(resp).puesto_id)

(***************************************************************************)
(* C25, as claimed.  With a cycle in responde_a_id the call of             *)
(* buildSubordinatePuestoIds for a puesto on the cycle never returns, and  *)
(* a capture or sendToReview for another employee by a requester at such a *)
(* puesto never completes: no response to it is ever sent.                 *)
(***************************************************************************)
C25_NeverCompletes ==
  /\ CallOnCycle => call.ret = <<>>
  /\ ~AnsweredOnCycle

(***************************************************************************)
(* C25, amended.  With a cycle in responde_a_id the call of                *)
(* buildSubordinatePuestoIds for a puesto on the cycle never returns a     *)
(* result: it recurses until the call stack of the engine is exhausted and *)
(* throws; only a puesto on a cycle does so, every other call returns what *)
(* the function returns for it.  A capture or sendToReview for another     *)
(* employee by a requester at a puesto on a cycle is answered by the catch *)
(* of its handler with the error status and writes nothing, and a running  *)
(* recursion always has a next step.                                       *)
(***************************************************************************)
C25_CycleEndsInError ==
  /\ [](CallOnCycle => call.ret = <<>>)
  /\ []((call.fn \in {"save", "review"} /\ call.thrown) => CallOnCycle)
  /\ []((call.fn \in {"save", "review"} /\ call.ret # <<>>)
          => call.ret[1] = buildSubordinatePuestoIds(call.args[1].puesto_id,
                                                     SelectPuestos))
  /\ [](Running => ENABLED (Recurse \/ StackOverflow \/ ReturnSubordinates))
  /\ [][ (resp = NoResponse /\ AnsweredOnCycle') => (resp'.status = 500 /\ Unchanged)
       ]_vars

\* the capture of a requester on a cycle for another employee was answered
\* with the error of the hierarchy check
C25_Witness ==
  /\ resp.op = "save" /\ resp.status = 500
  /\ AnsweredOnCycle
  /\ kpi_resultados = <<>>

(***************************************************************************)
(* Administration of puestos: POST /puestos/crear and                      *)
(* POST /puestos/editar/:id, from the seeded tree with puesto 1 as the     *)
(* admin's.  The forms offer the existing puestos and none as              *)
(* responde_a_id.                                                          *)
(***************************************************************************)
\* edits of puestos in one behaviour
MaxPuestoEdits == 2
\* puestos created in one behaviour
MaxCreated == 1

\* the ids of table puestos
PuestoIds == DOMAIN puestos

\* validRoles.includes(role) ? role : 'user'
ValidRole(role) == IF role \in {"admin", "manager", "user"} THEN role ELSE "user"

RoleInputs == {"user", "x"}

\* POST /puestos/crear, nombre given; the id is the next AUTO_INCREMENT value
CrearPuesto(user, responde_a_id, role) ==
  /\ resp = NoResponse
  /\ requireRole({"admin"}, user)
  /\ LET id == Cardinality(PuestoIds) + 1
         puestoRole == IF user.role = "admin" THEN ValidRole(role) ELSE "user"
     IN  puestos' = [p \in PuestoIds \cup {id} |->
                       IF p = id
                       THEN [responde_a_id |-> responde_a_id, role |-> puestoRole]
                       ELSE puestos[p]]
  /\ UNCHANGED <<empleados, kpis, keyEmp, kpi_resultados, pending, resp, session, edits>>
  /\ UNCHANGED restVars

\* the seeded tree, every employee logged in, puesto 1 with role admin
InitPuestos ==
  /\ puestos = [p \in Puestos |->
                  [responde_a_id |-> SeedRespondeA(p),
                   role |-> IF p = 1 THEN "admin" ELSE "user"]]
  /\ empleados = [e \in Empleados |-> [puesto_id |-> SeedPuestoId(e)]]
  /\ kpis = <<SeedKpi>>
  /\ keyEmp = 1
  /\ kpi_resultados = <<>>
  /\ pending = <<>>
  /\ resp = NoResponse
  /\ session = [e \in Empleados |-> SessionUser(e)]
  /\ edits = 0
  /\ InitRest

CrearPuestoRequest ==
  /\ Cardinality(PuestoIds) < NumPuestos + MaxCreated
  /\ \E user \in Users, responde_a_id \in PuestoIds \cup {NULL}, role \in RoleInputs :
       CrearPuesto(user, responde_a_id, role)

EditarPuestoFormRequest ==
  /\ edits < MaxPuestoEdits
  /\ \E user \in Users, id \in PuestoIds, responde_a_id \in PuestoIds \cup {NULL},
        role \in RoleInputs :
       EditarPuesto(user, id, responde_a_id, ValidRole(role))

NextPuestos == CrearPuestoRequest \/ EditarPuestoFormRequest

SpecPuestos == InitPuestos /\ [][NextPuestos]_vars

\* puesto p is above itself, one level up or more
ReportsToItself(p) == \E n \in 1..Cardinality(PuestoIds) : BossAt(p, n) = p

(***************************************************************************)
(* C26.  From the acyclic seeded tree no sequence of POST /puestos/crear   *)
(* and POST /puestos/editar/:id leaves a puesto that responds to itself,   *)
(* directly or through other puestos.                                      *)
(***************************************************************************)
C26_NoPuestoAboveItself == \A p \in PuestoIds : ~ReportsToItself(p)

(***************************************************************************)
(* services/emailScheduler.js: the job that cron runs every day at the    *)
(* configured time.  A run is drawn with the server's date, the start day  *)
(* of the environment, whether ../routes/dashboard exports                 *)
(* getDefaultPeriod, and the employees with correo: some not yet sent for  *)
(* the period, only already sent ones with the resend flag on, or none.    *)
(***************************************************************************)
\* parseInt(process.env.EMAIL_BATCH_START_DAY || '11', 10)
DefaultStartDay == 11

StartDayInputs == {1, 10, DefaultStartDay}

RecipientInputs == {"pending", "resend", "none"}

\* the backup of the job: the same rule, computed in place
fallbackPeriod(d) ==
  LET y == d.year
      m == d.month + 1
  IN  IF d.date <= 10
      THEN IF m - 1 < 1 THEN [year |-> y - 1, month |-> 12]
           ELSE [year |-> y, month |-> m - 1]
      ELSE [year |-> y, month |-> m]

\* the job did not get to its period
NoPeriod == [year |-> NULL, month |-> NULL]

\* what a run of the job does: whether it passed the start day, the period
\* it used, the number of mails sent and whether they were forced resends
JobRun(ran, period, sentCount, force) ==
  [ran |-> ran, period |-> period, sentCount |-> sentCount, force |-> force]

\* the callback of cron.schedule
ScheduledJob(now, startDay, exported, recipients) ==
  IF now.date < startDay
  THEN Returns(JobRun(FALSE, NoPeriod, 0, FALSE))
  ELSE LET period == IF exported THEN getDefaultPeriod(now) ELSE fallbackPeriod(now)
       IN  IF recipients = "none"
           THEN Returns(JobRun(TRUE, period, 0, FALSE))
           ELSE \E sentCount \in 0..1 :
                  Returns(JobRun(TRUE, period, sentCount, recipients = "resend"))

ScheduledJobCalls ==
  {Call("scheduledJob", <<now, startDay, exported, recipients>>) :
     now \in Dates, startDay \in StartDayInputs, exported \in BOOLEAN,
     recipients \in RecipientInputs}

CallScheduledJob ==
  /\ Calls("scheduledJob")
  /\ ScheduledJob(call.args[1], call.args[2], call.args[3], call.args[4])

InitScheduler ==
  /\ puestos = <<>>
  /\ empleados = <<>>
  /\ kpis = <<>>
  /\ keyEmp = NULL
  /\ kpi_resultados = <<>>
  /\ pending = <<>>
  /\ resp = NoResponse
  /\ session = <<>>
  /\ edits = 0
  /\ puesto_kpis = <<>>
  /\ saving = <<>>
  /\ call \in ScheduledJobCalls

NextScheduler == CallScheduledJob

SpecScheduler == InitScheduler /\ [][NextScheduler]_vars

\* the calendar month before that of date now
PreviousMonth(now) ==
  IF now.month = 0 THEN [year |-> now.year - 1, month |-> 12]
  ELSE [year |-> now.year, month |-> now.month]

(***************************************************************************)
(* C27.  Every run of the scheduled job that sends a mail sends the       *)
(* results of the calendar month before that of the server's date; with    *)
(* the default start day 11 this is so on every day on which the job      *)
(* acts.                                                                   *)
(***************************************************************************)
C27_SendsPreviousMonth ==
  (Returned("scheduledJob") /\ call.ret[1].sentCount > 0)
     => call.ret[1].period = PreviousMonth(call.args[1])

\* the review columns of the row are all NULL
NoReviewOnRow ==
  /\ kpi_resultados[1].revision_por = NULL
  /\ kpi_resultados[1].revision_fecha = "NULL"
  /\ kpi_resultados[1].revision_motivo = NullStr

(***************************************************************************)
(* C28.  In every reachable state of a result row: it is approved exactly  *)
(* when it has an approver, an approved row has its three review columns   *)
(* NULL, and so no row is APPROVED and IN_REVIEW at once.                  *)
(***************************************************************************)
C28_ApprovalAndReviewExclude ==
  kpi_resultados # <<>>
    => /\ kpi_resultados[1].visto_bueno \in {0, 1}
       /\ kpi_resultados[1].visto_bueno = 1 <=> kpi_resultados[1].visto_por # NULL
       /\ kpi_resultados[1].visto_bueno = 1 <=> kpi_resultados[1].visto_fecha # "NULL"
       /\ Approved => NoReviewOnRow
       /\ ~(Approved /\ InReview)
       /\ statusFromResult(kpi_resultados) = "EN REVISION" <=> InReview

\* a row that carries a value and a comment stands approved by someone else
\* than its employee
C28_Witness ==
  /\ Approved
  /\ NoReviewOnRow
  /\ resp.op = "visto" /\ resp.status = 200
  /\ resp.actor # keyEmp
  /\ kpi_resultados[1].valor = <<"9">>
  /\ kpi_resultados[1].comentario = <<"o", "k">>

\* the row stands approved by a holder of the puesto that the puesto of the
\* key's employee responds to
ApprovedByDirectBoss ==
  /\ Approved
  /\ ApprovedBy # NULL
  /\ ReportsDirectlyTo(keyEmp, PuestoOf(ApprovedBy))

\* this step answers a request of the key's employee, who is neither admin
\* nor manager
OwnRequestAnswered ==
  /\ \E op \in {"save", "visto", "review"} : Answers(op)
  /\ resp'.actor = keyEmp
  /\ ~Elevated(resp')

(***************************************************************************)
(* C29.  While a result stands approved by the direct boss of its          *)
(* employee, who is neither admin nor manager, no capture, approve or      *)
(* sendToReview request of that employee changes the row: every one of     *)
(* them is refused and the row stays as it is.                             *)
(***************************************************************************)
C29_OwnApprovedResultStays ==
  [][ (ApprovedByDirectBoss /\ OwnRequestAnswered)
        => (resp'.status \in {400, 403, 404, 423} /\ Unchanged)
    ]_vars

\* a capture of user on the row as it is would be refused as Locked
LockedFor(user) == SaveStatus(user, KpiId, keyEmp, kpi_resultados) = 423

\* the same on the row as the step leaves it
LockedAfterFor(user) == SaveStatus(user, KpiId, keyEmp, kpi_resultados') = 423

\* the step changes valor of the row
ValorChanges ==
  /\ kpi_resultados' # <<>>
  /\ kpi_resultados'[1].valor # RowBefore.valor

(***************************************************************************)
(* C30.  The lock holds over sequences of requests: no request of an actor *)
(* whose capture on the APPROVED row would be refused as Locked makes the  *)
(* row writable for that actor, a sendToReview of such an actor is refused *)
(* and leaves the row as it was, and valor of a row approved by B changes  *)
(* only by a request of an actor that is admin or manager, is B, or has    *)
(* B's puesto among the subordinates of its own.                           *)
(***************************************************************************)
C30_LockHoldsOverSequences ==
  [][ /\ \A op \in {"save", "visto", "review"} :
           (Answers(op) /\ LockedFor(Actor(resp'))) => LockedAfterFor(Actor(resp'))
      /\ (Answers("review") /\ LockedFor(Actor(resp')) /\ resp'.status # 400)
           => (resp'.status = 403 /\ Unchanged)
      /\ (Approved /\ ValorChanges)
           => \E op \in {"save", "visto", "review"} :
                Answers(op) /\ OverrideRights(resp', ApprovedBy)
    ]_vars

====
